---- MODULE Spec2Model ----
(***************************************************************************)
(* Real-time collaboration core of QUANTA: the circuit store               *)
(* (frontend/src/stores/circuitStore.ts), the collaboration store          *)
(* (stores/collabStore, src/unnamed/part_010), the circuit grid and the    *)
(* collaboration panel, together with the Room Registry the clients talk   *)
(* to.  The Room Registry is not part of the sources; it is modelled from  *)
(* the specification (sections 4.1 and 6) and every definition that does   *)
(* so says so.  Two neighbours of the core are modelled with it: the       *)
(* simulation request of CircuitControls.tsx, whose result the circuit     *)
(* store keeps, and the token refresh of the API client                    *)
(* (src/unnamed/part_012).                                                 *)
(***************************************************************************)
EXTENDS Integers, Sequences, FiniteSets, TLC

(* ------------------------------ bounds --------------------------------- *)
NumClients == 2
MaxRooms == 1
MaxSockets == 2
MaxEdits == 1
MaxFailedJoins == 1
RoomSockets == 1
RoomEdits == 3
SessionRooms == 2
SessionSockets == 3
SessionEdits == 1
PresenceMessages == 2
CapacityRejections == 1
CapacitySockets == 2
CaseSockets == 2
CaseFailedJoins == 1
OfflineSockets == 1
OfflineEdits == 2
MaxCellQubit == 1
MaxStep == 0
MaxQubitDrop == 1
ReplicaEdits == 1
ReplicaMessages == 2
SimulateEdits == 2
SimulateMessages == 1
MaxSimulations == 2
MaxApiRequests == 3
MaxCallDepth == 4

(* ------------------------- program constants --------------------------- *)
DefaultNumQubits == 4
MinNumQubits == 1
MaxNumQubits == 16

NULL == "null"
Clients == 1..NumClients
GateTypes == {"H", "X"}
CellQubits == 0..MaxCellQubit
Steps == 0..MaxStep
DefaultName == "Untitled Circuit"
SharedName == "Shared Circuit"

Min(S) == CHOOSE x \in S : \A y \in S : x <= y
Max(S) == CHOOSE x \in S : \A y \in S : x >= y
Range(s) == {s[i] : i \in 1..Len(s)}

(* ======================= circuitStore.ts =============================== *)

\* createEmptyCircuit: 4 qubits, no gates, 'Untitled Circuit'.
createEmptyCircuit == [numQubits |-> DefaultNumQubits, gates |-> <<>>, name |-> DefaultName]

setNumQubits_targetOnly(circ, n) ==
  LET clampedN == Max({MinNumQubits, Min({MaxNumQubits, n})})
  IN  [circ EXCEPT !.numQubits = clampedN,
                   !.gates = SelectSeq(circ.gates, LAMBDA g : g.qubit < clampedN)]

\* setNumQubits: clamp to 1..16, keep the gates whose qubit, controlQubit and
\* controlQubit2 are below the new count.  controlQubit and controlQubit2 are
\* optional fields of a gate: a gate without one has no such field.
setNumQubits(circ, n) ==
  LET clampedN == Max({MinNumQubits, Min({MaxNumQubits, n})})
  IN  [circ EXCEPT !.numQubits = clampedN,
                   !.gates = SelectSeq(circ.gates, LAMBDA g :
                       /\ g.qubit < clampedN
                       /\ ("controlQubit" \notin DOMAIN g \/ g.controlQubit < clampedN)
                       /\ ("controlQubit2" \notin DOMAIN g \/ g.controlQubit2 < clampedN))]

\* addGate: append { ...gate, id: generateId() }; nothing is removed.
addGate(circ, gate, id) ==
  [circ EXCEPT !.gates = Append(circ.gates,
      [id |-> id, type |-> gate.type, qubit |-> gate.qubit, step |-> gate.step])]

removeGate_keepsOnlyThatId(circ, gateId) ==
  [circ EXCEPT !.gates = SelectSeq(circ.gates, LAMBDA g : g.id = gateId)]

\* removeGate: filter out the gates with that id.
removeGate(circ, gateId) ==
  [circ EXCEPT !.gates = SelectSeq(circ.gates, LAMBDA g : g.id # gateId)]

updateGate_everyGate(circ, gateId, updates) ==
  [circ EXCEPT !.gates =
      [i \in 1..Len(circ.gates) |->
         [circ.gates[i] EXCEPT !.qubit = updates.qubit, !.step = updates.step]]]

\* updateGate: map, merging the updates (qubit, step) into the gate with that id.
updateGate(circ, gateId, updates) ==
  [circ EXCEPT !.gates =
      [i \in 1..Len(circ.gates) |->
         IF circ.gates[i].id = gateId
         THEN [circ.gates[i] EXCEPT !.qubit = updates.qubit, !.step = updates.step]
         ELSE circ.gates[i]]]

loadCircuit_keepsGates(circ, newCirc) == [newCirc EXCEPT !.gates = circ.gates]

\* loadCircuit: the circuit is replaced by the argument.
loadCircuit(circ, newCirc) == newCirc

\* CircuitBuilder.getGateAt: gates.find(...), the FIRST gate at the cell;
\* <<>> stands for undefined.
getGateAt(gates, qubit, step) ==
  LET at == {i \in 1..Len(gates) : gates[i].qubit = qubit /\ gates[i].step = step}
  IN  IF at = {} THEN <<>> ELSE <<gates[Min(at)]>>

(* ============================== state ================================== *)
VARIABLES
  circuit,       \* circuitStore: circuit[c] = [numQubits, gates, name]
  nextId,        \* generateId(): the ids client c has drawn so far
  isConnected,   \* collabStore.isConnected
  roomId,        \* collabStore.roomId (NULL or a room code)
  userId,        \* collabStore.userId (0 = null)
  participants,  \* collabStore.participants
  chatMessages,  \* collabStore.chatMessages
  socket,        \* collabStore.socket (0 = null, else an index of socks)
  http,          \* the fetch of createRoom / joinRoom that is awaiting
  error,         \* CollabPanel's error state
  socks,         \* every WebSocket object constructed so far
  rooms,         \* Room Registry: the rooms
  nextUser,      \* Room Registry: participant ids handed out
  order,         \* history: order[r], the operations room r received, in order
  lastEdit,      \* history: the local in-room edit whose operation is not sent yet
  unsent,        \* history: an in-room edit of c was superseded before being sent
  applog,        \* history: <<room, position>> of the remote operations applied to
                 \* c's circuit since createRoom / joinRoom last resolved in c
  left,          \* model budget: the rooms, sockets, local edits and presence
                 \* messages the run may still create
  simulationResult, \* circuitStore.simulationResult: null, or the result
                 \* with the gates and qubit count it was computed from
  isSimulating,  \* circuitStore.isSimulating
  simRequest,    \* the simulateSteps call handleSimulate is awaiting
  REFRESH_TOKEN, \* part_012: the stored refresh token (NULL when cleared)
  ACCESS_TOKEN,  \* part_012: the stored access token
  calls,         \* the apiClient calls in progress, innermost last
  settled,       \* how the outermost apiClient call ended
  refreshes      \* history: the /api/auth/refresh requests issued so far

clientVars == <<circuit, nextId, isConnected, roomId, userId, participants,
                chatMessages, socket, http, error>>
serverVars == <<rooms, nextUser>>
histVars == <<order, lastEdit, unsent, applog, left>>
simVars == <<simulationResult, isSimulating, simRequest>>
authVars == <<REFRESH_TOKEN, ACCESS_TOKEN, calls, settled, refreshes>>
vars == <<circuit, nextId, isConnected, roomId, userId, participants,
          chatMessages, socket, http, error, socks, rooms, nextUser,
          order, lastEdit, unsent, applog, left,
          simulationResult, isSimulating, simRequest,
          REFRESH_TOKEN, ACCESS_TOKEN, calls, settled, refreshes>>

RoomCodes == <<"AB12", "CD34", "EF56", "GH78">>

\* String.prototype.toUpperCase on the room codes the model writes in other
\* letter cases; every other string of the model has no lower-case letter
\* the claims look at.
toUpperCase(text) ==
  CASE text = "ab12" -> "AB12"
    [] text = "Ab12" -> "AB12"
    [] text = "zz99" -> "ZZ99"
    [] OTHER -> text
UnknownCode == "ZZ99"
\* What the store holds after destructuring a body without room_id / user_id.
Undefined == "undefined"
UndefinedUser == -1
NoHttp == [kind |-> "none"]
NoEdit == [kind |-> "none"]
NoCursor == "none"
\* The tokens part_012 reads from localStorage when the module loads, and
\* the ones a refresh or a login returns.
StoredAccessToken == "access0"
StoredRefreshToken == "refresh0"
FreshAccessToken == "access1"
FreshRefreshToken == "refresh1"
\* simulationResult: null; and no simulateSteps call awaited.
NoResult == [kind |-> "null"]
NoRequest == [kind |-> "none"]
SomeCursor == "x10y20"

\* A circuit the persist middleware restores from localStorage
\* ('quanta-circuit'): one H gate, placed in an earlier visit.
PersistedCircuit ==
  [createEmptyCircuit EXCEPT
     !.gates = <<[id |-> <<0, 1>>, type |-> "H", qubit |-> 0, step |-> 0]>>]

\* The stores as constructed (part_010:158-165, circuitStore.ts:68-79):
\* client 1 comes back to a persisted circuit, the others start empty.
InitClients ==
  /\ circuit = [c \in Clients |-> IF c = 1 THEN PersistedCircuit ELSE createEmptyCircuit]
  /\ nextId = [c \in Clients |-> 1]
  /\ isConnected = [c \in Clients |-> FALSE]
  /\ roomId = [c \in Clients |-> NULL]
  /\ userId = [c \in Clients |-> 0]
  /\ participants = [c \in Clients |-> <<>>]
  /\ chatMessages = [c \in Clients |-> <<>>]
  /\ socket = [c \in Clients |-> 0]
  /\ http = [c \in Clients |-> NoHttp]
  /\ error = [c \in Clients |-> NULL]
  /\ lastEdit = [c \in Clients |-> NoEdit]
  /\ unsent = [c \in Clients |-> FALSE]
  /\ applog = [c \in Clients |-> <<>>]
  /\ simulationResult = [c \in Clients |-> NoResult]
  /\ isSimulating = [c \in Clients |-> FALSE]
  /\ simRequest = [c \in Clients |-> NoRequest]
  /\ REFRESH_TOKEN = StoredRefreshToken
  /\ ACCESS_TOKEN = StoredAccessToken
  /\ calls = <<>>
  /\ settled = NULL
  /\ refreshes = 0

\* The state after construction, before the Room Registry holds any room.
Init ==
  /\ InitClients
  /\ socks = <<>>
  /\ rooms = <<>>
  /\ nextUser = 1
  /\ order = <<>>
  /\ left = [rooms |-> MaxRooms, socks |-> MaxSockets, edits |-> MaxEdits,
             chats |-> 0, fails |-> MaxFailedJoins, msgs |-> 0, sims |-> 0, apis |-> 0]

(* ================== Room Registry (from the specification) ============= *)

RoomIndex_caseSensitive(code) == {i \in 1..Len(rooms) : rooms[i].id = code}

\* Room ids are case-normalized when allocated and looked up without regard
\* to letter case.
RoomIndex(code) == {i \in 1..Len(rooms) : rooms[i].id = toUpperCase(code)}

\* Fan-out: the message is queued on every open channel of the room except
\* the author's.
Broadcast(ss, code, exceptUser, msg) ==
  [i \in 1..Len(ss) |->
     IF ss[i].st = "open" /\ toUpperCase(ss[i].room) = toUpperCase(code) /\ ss[i].user # exceptUser
     THEN [ss[i] EXCEPT !.inbox = Append(@, msg)]
     ELSE ss[i]]

\* The kind tag under which the registry relays an operation: the tags the
\* client's handleMessage switches on.
RelayKind(kind) ==
  CASE kind = "gate_add" -> "gate_added"
    [] kind = "gate_remove" -> "gate_removed"
    [] kind = "gate_move" -> "gate_moved"
    [] kind = "circuit_update" -> "circuit_updated"
    [] kind = "qubit_count_change" -> "qubit_count_changed"
    [] kind = "cursor_move" -> "cursor_update"
    [] OTHER -> kind

DocKinds == {"gate_add", "gate_remove", "gate_move", "circuit_update", "qubit_count_change"}

\* The authoritative document after an operation (section 6, Effect column):
\* gate placements are keyed by cell, so an insert or a move replaces what the
\* cell held.
RegistryApply(room, op) ==
  CASE op.type = "gate_add" ->
         [room EXCEPT !.gates = Append(
            SelectSeq(room.gates, LAMBDA g : ~(g.qubit = op.gate.qubit /\ g.step = op.gate.step)),
            op.gate)]
    [] op.type = "gate_remove" ->
         [room EXCEPT !.gates = SelectSeq(room.gates, LAMBDA g : g.id # op.gate_id)]
    [] op.type = "gate_move" ->
         IF \E g \in Range(room.gates) : g.id = op.gate_id
         THEN LET moved == CHOOSE g \in Range(room.gates) : g.id = op.gate_id
              IN  [room EXCEPT !.gates = Append(
                     SelectSeq(room.gates, LAMBDA g : g.id # op.gate_id
                                 /\ ~(g.qubit = op.qubit /\ g.step = op.step)),
                     [moved EXCEPT !.qubit = op.qubit, !.step = op.step])]
         ELSE room
    [] op.type = "circuit_update" ->
         [room EXCEPT !.numQubits = op.circuit.numQubits,
                      !.gates = op.circuit.gates,
                      !.name = op.circuit.name]
    [] op.type = "qubit_count_change" ->
         [room EXCEPT !.numQubits = op.num_qubits,
                      !.gates = SelectSeq(room.gates, LAMBDA g : g.qubit < op.num_qubits)]
    [] OTHER -> room

\* submitOperation: apply a document-mutating operation to the room's
\* document, give it the next position of the room's order and relay it to
\* the other open channels.  Only rooms, order and socks change.
SubmitOperation(s, op) ==
  LET code == socks[s].room
      r == CHOOSE i \in RoomIndex(code) : TRUE
      isDoc == op.type \in DocKinds
      seq == Len(order[r]) + 1
      msg == [op EXCEPT !.type = RelayKind(op.type)] @@
             [user_id |-> socks[s].user, seq |-> IF isDoc THEN seq ELSE 0]
  IN  /\ RoomIndex(code) # {}
      /\ rooms' = [rooms EXCEPT ![r] = RegistryApply(@, op)]
      /\ order' = IF isDoc
                  THEN [order EXCEPT ![r] = Append(@, [seq |-> seq, author |-> socks[s].user, op |-> op])]
                  ELSE order
      /\ socks' = Broadcast(socks, code, socks[s].user, msg)

\* leave: the participant is taken off the roster and participant_left goes
\* to the other open channels.
RegistryLeave(rs, code, user) ==
  [i \in 1..Len(rs) |->
     IF rs[i].id = toUpperCase(code)
     THEN [rs[i] EXCEPT !.roster = SelectSeq(@, LAMBDA p : p.user_id # user)]
     ELSE rs[i]]

LeftMsg(user) == [type |-> "participant_left", user_id |-> user, seq |-> 0]

(* ======================= collabStore (part_010) ======================== *)

\* connectWebSocket: a new WebSocket, still connecting.  The store's socket
\* field is NOT set here; socket.onopen sets it.  `snap', `from' and
\* `applied' are history: the room's order position when the session's
\* snapshot was taken (joinRoom) or the room was allocated (createRoom), the
\* position when the channel opened, and the positions of the operations its
\* messages made the handler apply.
connectWebSocket(ss, c, code, user) ==
  Append(ss, [owner |-> c, room |-> code, user |-> user, st |-> "connecting",
              inbox |-> <<>>, from |-> 0, applied |-> <<>>,
              snap |-> IF http[c].kind = "join" THEN http[c].seq ELSE 0])

docCall_dropsRemove(data) ==
  CASE data.type = "gate_added" ->
         [fn |-> "addGate", gate |-> [type |-> data.gate.type, qubit |-> data.gate.qubit, step |-> data.gate.step]]
    [] data.type = "gate_moved" ->
         [fn |-> "updateGate", gate_id |-> data.gate_id, updates |-> [qubit |-> data.qubit, step |-> data.step]]
    [] data.type = "circuit_updated" -> [fn |-> "loadCircuit", circuit |-> data.circuit]
    [] data.type = "qubit_count_changed" -> [fn |-> "setNumQubits", n |-> data.num_qubits]
    [] OTHER -> [fn |-> "none"]

\* handleMessage, the document cases of the switch: the circuitStore call a
\* message makes.  gate_added passes type, qubit and step only, so addGate
\* draws a new id.
docCall(data) ==
  CASE data.type = "gate_added" ->
         [fn |-> "addGate", gate |-> [type |-> data.gate.type, qubit |-> data.gate.qubit, step |-> data.gate.step]]
    [] data.type = "gate_removed" -> [fn |-> "removeGate", gate_id |-> data.gate_id]
    [] data.type = "gate_moved" ->
         [fn |-> "updateGate", gate_id |-> data.gate_id, updates |-> [qubit |-> data.qubit, step |-> data.step]]
    [] data.type = "circuit_updated" -> [fn |-> "loadCircuit", circuit |-> data.circuit]
    [] data.type = "qubit_count_changed" -> [fn |-> "setNumQubits", n |-> data.num_qubits]
    [] OTHER -> [fn |-> "none"]

\* The circuit after the call; id is the id generateId() returns to addGate.
\* circuit_updated keeps the current circuit's other fields and falls back to
\* 'Shared Circuit' for an empty name.
applyCall(circ, call, id) ==
  CASE call.fn = "addGate" -> addGate(circ, call.gate, id)
    [] call.fn = "removeGate" -> removeGate(circ, call.gate_id)
    [] call.fn = "updateGate" -> updateGate(circ, call.gate_id, call.updates)
    [] call.fn = "loadCircuit" ->
         loadCircuit(circ, [circ EXCEPT
            !.name = IF call.circuit.name = "" THEN SharedName ELSE call.circuit.name,
            !.numQubits = call.circuit.numQubits,
            !.gates = call.circuit.gates])
    [] call.fn = "setNumQubits" -> setNumQubits(circ, call.n)
    [] OTHER -> circ

rosterAfter_cursorForAll(ps, data) ==
  CASE data.type = "room_state" -> data.participants
    [] data.type = "participant_joined" -> Append(ps, data.participant)
    [] data.type = "participant_left" -> SelectSeq(ps, LAMBDA p : p.user_id # data.user_id)
    [] data.type = "cursor_update" -> [i \in 1..Len(ps) |-> [ps[i] EXCEPT !.cursor = data.cursor]]
    [] OTHER -> ps

\* handleMessage, the presence cases: the roster after the message.
rosterAfter(ps, data) ==
  CASE data.type = "room_state" -> data.participants
    [] data.type = "participant_joined" -> Append(ps, data.participant)
    [] data.type = "participant_left" -> SelectSeq(ps, LAMBDA p : p.user_id # data.user_id)
    [] data.type = "cursor_update" ->
         [i \in 1..Len(ps) |->
            IF ps[i].user_id = data.user_id THEN [ps[i] EXCEPT !.cursor = data.cursor] ELSE ps[i]]
    [] OTHER -> ps

\* handleMessage, case 'chat_message'.
chatAfter(log, data) ==
  IF data.type = "chat_message"
  THEN Append(log, [user_id |-> data.user_id, message |-> data.message])
  ELSE log

\* handleMessage(data) in client c: one switch over data.type.
handleMessage(c, data) ==
  LET call == docCall(data)
  IN  /\ circuit' = [circuit EXCEPT ![c] = applyCall(@, call, <<c, nextId[c]>>)]
      /\ nextId' = [nextId EXCEPT ![c] = IF call.fn = "addGate" THEN @ + 1 ELSE @]
      /\ participants' = [participants EXCEPT ![c] = rosterAfter(@, data)]
      /\ chatMessages' = [chatMessages EXCEPT ![c] = chatAfter(@, data)]
      /\ simulationResult' = IF call.fn # "none"
                             THEN [simulationResult EXCEPT ![c] = NoResult]
                             ELSE simulationResult

\* ---- createRoom ---------------------------------------------------------
\* The request: the body carries the circuit as it is when createRoom is
\* called.  The registry (from the specification) allocates the room with the
\* creator as its one participant; the response waits in http[c].
\* handleCreate clears the panel's error before it calls createRoom.
CreateRoomRequest(c) ==
  /\ http[c].kind = "none"
  /\ left.rooms > 0 /\ left.socks > 0
  /\ left' = [left EXCEPT !.rooms = @ - 1, !.socks = @ - 1]
  /\ LET code == RoomCodes[Len(rooms) + 1]
         me == [user_id |-> nextUser, cursor |-> NoCursor]
     IN  /\ rooms' = Append(rooms, [id |-> code,
                                    numQubits |-> circuit[c].numQubits,
                                    gates |-> circuit[c].gates,
                                    name |-> circuit[c].name,
                                    roster |-> <<me>>])
         /\ order' = Append(order, <<>>)
         /\ http' = [http EXCEPT ![c] = [kind |-> "create", ok |-> TRUE,
                                         room_id |-> code, user_id |-> nextUser]]
  /\ nextUser' = nextUser + 1
  /\ error' = [error EXCEPT ![c] = NULL]
  /\ UNCHANGED <<applog, circuit, nextId, isConnected, roomId, userId, participants,
                 chatMessages, socket, socks, lastEdit, unsent, simVars, authVars>>

\* The request refused by the registry for capacity (from the specification:
\* CapacityExceeded).  The response is not ok; its body either parses as JSON
\* (without room_id and user_id) or does not.  createRoom does not look at
\* response.ok, so a body that parses goes down the same path as a success.
CreateRoomRejected(c, parses) ==
  /\ http[c].kind = "none"
  /\ left.fails > 0
  /\ parses => left.socks > 0
  /\ left' = [left EXCEPT !.fails = @ - 1, !.socks = IF parses THEN @ - 1 ELSE @]
  /\ http' = [http EXCEPT ![c] = [kind |-> IF parses THEN "create" ELSE "createThrows",
                                  ok |-> FALSE, reason |-> "capacity",
                                  room_id |-> Undefined, user_id |-> UndefinedUser]]
  /\ error' = [error EXCEPT ![c] = NULL]
  /\ UNCHANGED <<applog, circuit, nextId, isConnected, roomId, userId, participants,
                 chatMessages, socket, socks, rooms, nextUser, order, lastEdit, unsent, simVars, authVars>>

\* response.json() throws on a body that is not JSON: createRoom rejects
\* before any set(), handleCreate's catch sets the panel's error.
CreateRoomFailed(c) ==
  /\ http[c].kind = "createThrows"
  /\ error' = [error EXCEPT ![c] = "Failed to create room"]
  /\ http' = [http EXCEPT ![c] = NoHttp]
  /\ UNCHANGED <<circuit, nextId, isConnected, roomId, userId, participants,
                 chatMessages, socket, socks, rooms, nextUser,
                 order, lastEdit, unsent, applog, left, simVars, authVars>>

\* The rest of createRoom, after the awaits: set roomId and userId, connect.
CreateRoomResponse(c) ==
  /\ http[c].kind = "create"
  /\ roomId' = [roomId EXCEPT ![c] = http[c].room_id]
  /\ userId' = [userId EXCEPT ![c] = http[c].user_id]
  /\ socks' = connectWebSocket(socks, c, http[c].room_id, http[c].user_id)
  /\ http' = [http EXCEPT ![c] = NoHttp]
  /\ lastEdit' = [lastEdit EXCEPT ![c] = NoEdit]
  /\ unsent' = [unsent EXCEPT ![c] = FALSE]
  /\ applog' = [applog EXCEPT ![c] = <<>>]
  /\ UNCHANGED <<circuit, nextId, isConnected, participants, chatMessages, socket,
                 error, rooms, nextUser, order, left, simVars, authVars>>

\* ---- joinRoom -----------------------------------------------------------
\* The request.  The registry (from the specification): an unknown code is
\* answered not-ok; otherwise a new participant joins the roster,
\* participant_joined goes to the open channels of the room and the response
\* carries the participant id, the document and the roster as they are now
\* (seq is history: the room's order position of that snapshot).
\* handleJoin clears the panel's error before it calls joinRoom.
JoinRoomRequest(c, code) ==
  /\ http[c].kind = "none"
  /\ error' = [error EXCEPT ![c] = NULL]
  /\ IF RoomIndex(code) = {}
     THEN /\ left.fails > 0
          /\ left' = [left EXCEPT !.fails = @ - 1]
          /\ http' = [http EXCEPT ![c] = [kind |-> "join", ok |-> FALSE,
                                         reason |-> "not_found", room_id |-> code]]
          /\ UNCHANGED <<rooms, nextUser, socks>>
     ELSE LET r == CHOOSE i \in RoomIndex(code) : TRUE
              me == [user_id |-> nextUser, cursor |-> NoCursor]
              roster == Append(rooms[r].roster, me)
          IN  /\ left.socks > 0
              /\ left' = [left EXCEPT !.socks = @ - 1]
              /\ rooms' = [rooms EXCEPT ![r].roster = roster]
              /\ nextUser' = nextUser + 1
              /\ socks' = Broadcast(socks, code, nextUser,
                             [type |-> "participant_joined", participant |-> me, seq |-> 0])
              /\ http' = [http EXCEPT ![c] =
                             [kind |-> "join", ok |-> TRUE, room_id |-> code,
                              user_id |-> nextUser, seq |-> Len(order[r]),
                              circuit |-> [numQubits |-> rooms[r].numQubits,
                                           gates |-> rooms[r].gates,
                                           name |-> rooms[r].name],
                              participants |-> roster]]
  /\ UNCHANGED <<applog, circuit, nextId, isConnected, roomId, userId, participants,
                 chatMessages, socket, order, lastEdit, unsent, simVars, authVars>>

\* The join of an existing room refused by the registry for capacity (from
\* the specification): a not-ok response, nothing else happens.
JoinRoomRejected(c, code) ==
  /\ http[c].kind = "none"
  /\ RoomIndex(code) # {}
  /\ left.fails > 0
  /\ left' = [left EXCEPT !.fails = @ - 1]
  /\ http' = [http EXCEPT ![c] = [kind |-> "join", ok |-> FALSE,
                                  reason |-> "capacity", room_id |-> code]]
  /\ error' = [error EXCEPT ![c] = NULL]
  /\ UNCHANGED <<applog, circuit, nextId, isConnected, roomId, userId, participants,
                 chatMessages, socket, socks, rooms, nextUser, order, lastEdit, unsent, simVars, authVars>>

JoinRoomFailed_setsRoomId(c) ==
  /\ http[c].kind = "join"
  /\ ~http[c].ok
  /\ roomId' = [roomId EXCEPT ![c] = http[c].room_id]
  /\ error' = [error EXCEPT ![c] = "Room not found"]
  /\ http' = [http EXCEPT ![c] = NoHttp]
  /\ UNCHANGED <<circuit, nextId, isConnected, userId, participants,
                 chatMessages, socket, socks, rooms, nextUser,
                 order, lastEdit, unsent, applog, left, simVars, authVars>>

\* joinRoom after the fetch, response not ok: throw new Error('Room not
\* found') before anything is set; handleJoin's catch sets the panel's error.
JoinRoomFailed(c) ==
  /\ http[c].kind = "join"
  /\ ~http[c].ok
  /\ error' = [error EXCEPT ![c] = "Room not found"]
  /\ http' = [http EXCEPT ![c] = NoHttp]
  /\ UNCHANGED <<circuit, nextId, isConnected, roomId, userId, participants,
                 chatMessages, socket, socks, rooms, nextUser,
                 order, lastEdit, unsent, applog, left, simVars, authVars>>

joinedCircuit_keepsLocalGates(circ, snapshot) ==
  [circ EXCEPT !.name = IF snapshot.name = "" THEN SharedName ELSE snapshot.name,
               !.numQubits = snapshot.numQubits]

\* The circuit joinRoom passes to loadCircuit.
joinedCircuit(circ, snapshot) ==
  [circ EXCEPT !.name = IF snapshot.name = "" THEN SharedName ELSE snapshot.name,
               !.numQubits = snapshot.numQubits,
               !.gates = snapshot.gates]

\* handleJoin(code): the code typed into the join field has been upper-cased
\* by the field's onChange; the code of the URL's ?room= parameter is passed
\* as it stands.  Both are handed to joinRoom unchanged.
handleJoin(c, path, text) ==
  JoinRoomRequest(c, IF path = "typed" THEN toUpperCase(text) ELSE text)

\* joinRoom after the fetch, response ok: loadCircuit with the room's
\* circuit, set roomId, userId and participants, connect.
JoinRoomResponse(c) ==
  /\ http[c].kind = "join"
  /\ http[c].ok
  /\ circuit' = [circuit EXCEPT ![c] = loadCircuit(@, joinedCircuit(@, http[c].circuit))]
  /\ roomId' = [roomId EXCEPT ![c] = http[c].room_id]
  /\ userId' = [userId EXCEPT ![c] = http[c].user_id]
  /\ participants' = [participants EXCEPT ![c] = http[c].participants]
  /\ socks' = connectWebSocket(socks, c, http[c].room_id, http[c].user_id)
  /\ http' = [http EXCEPT ![c] = NoHttp]
  /\ lastEdit' = [lastEdit EXCEPT ![c] = NoEdit]
  /\ unsent' = [unsent EXCEPT ![c] = FALSE]
  /\ applog' = [applog EXCEPT ![c] = <<>>]
  /\ simulationResult' = [simulationResult EXCEPT ![c] = NoResult]
  /\ UNCHANGED <<nextId, isConnected, chatMessages, socket, error, rooms, nextUser,
                 order, left, isSimulating, simRequest, authVars>>

\* ---- the socket's events -------------------------------------------------
\* The channel opens: the registry (from the specification) sends room_state
\* with the roster, and socket.onopen sets isConnected and the store's socket,
\* whatever the store holds by then.
SocketOpen(s) ==
  /\ s \in 1..Len(socks)
  /\ socks[s].st = "connecting"
  /\ RoomIndex(socks[s].room) # {}
  /\ LET r == CHOOSE i \in RoomIndex(socks[s].room) : TRUE
         c == socks[s].owner
     IN  /\ socks' = [socks EXCEPT ![s].st = "open",
                                   ![s].from = Len(order[r]),
                                   ![s].inbox = <<[type |-> "room_state",
                                                   participants |-> rooms[r].roster,
                                                   seq |-> 0]>>]
         /\ isConnected' = [isConnected EXCEPT ![c] = TRUE]
         /\ socket' = [socket EXCEPT ![c] = s]
  /\ UNCHANGED <<applog, circuit, nextId, roomId, userId, participants, chatMessages, http,
                 error, rooms, nextUser, order, lastEdit, unsent, left, simVars, authVars>>

\* socket.onmessage: the next message of an open socket goes to
\* handleMessage, whichever socket of the client it is.  `applied' records the
\* order position of a message that made a circuitStore call.
SocketMessage(s) ==
  /\ s \in 1..Len(socks)
  /\ socks[s].st = "open"
  /\ socks[s].inbox # <<>>
  /\ LET data == Head(socks[s].inbox)
     IN  /\ handleMessage(socks[s].owner, data)
         /\ socks' = [socks EXCEPT ![s].inbox = Tail(@),
                                   ![s].applied = IF docCall(data).fn # "none"
                                                  THEN Append(@, data.seq) ELSE @]
         /\ applog' = [applog EXCEPT ![socks[s].owner] =
                          IF docCall(data).fn # "none"
                          THEN Append(@, <<socks[s].room, data.seq>>) ELSE @]
  /\ UNCHANGED <<isConnected, roomId, userId, socket, http, error, rooms, nextUser,
                 order, lastEdit, unsent, left, isSimulating, simRequest, authVars>>

onclose_keepsSocket(c) ==
  /\ isConnected' = [isConnected EXCEPT ![c] = FALSE]
  /\ UNCHANGED socket

\* socket.onclose: isConnected false and socket null, whichever socket closed.
onclose(c) ==
  /\ isConnected' = [isConnected EXCEPT ![c] = FALSE]
  /\ socket' = [socket EXCEPT ![c] = 0]

\* The channel is lost (network, server): the undelivered messages are gone,
\* the registry (from the specification) runs leave, the close event fires.
SocketLost(s) ==
  /\ s \in 1..Len(socks)
  /\ socks[s].st \in {"connecting", "open"}
  /\ socks' = Broadcast([socks EXCEPT ![s].st = "closed", ![s].inbox = <<>>],
                        socks[s].room, socks[s].user, LeftMsg(socks[s].user))
  /\ rooms' = RegistryLeave(rooms, socks[s].room, socks[s].user)
  /\ onclose(socks[s].owner)
  /\ UNCHANGED <<applog, circuit, nextId, roomId, userId, participants, chatMessages, http,
                 error, nextUser, order, lastEdit, unsent, left, simVars, authVars>>

\* The close event of a socket that leaveRoom closed.
SocketClosed(s) ==
  /\ s \in 1..Len(socks)
  /\ socks[s].st = "closing"
  /\ socks' = [socks EXCEPT ![s].st = "closed"]
  /\ onclose(socks[s].owner)
  /\ UNCHANGED <<applog, circuit, nextId, roomId, userId, participants, chatMessages, http,
                 error, rooms, nextUser, order, lastEdit, unsent, left, simVars, authVars>>

\* ---- leaveRoom -----------------------------------------------------------
\* socket.close() on the store's socket, if it holds one, then the reset.  A
\* closing socket delivers no further message; the registry (from the
\* specification) runs leave for its participant.
leaveRoom(c) ==
  /\ IF socket[c] # 0
     THEN /\ socks' = Broadcast([socks EXCEPT ![socket[c]].st = "closing",
                                              ![socket[c]].inbox = <<>>],
                                socks[socket[c]].room, socks[socket[c]].user,
                                LeftMsg(socks[socket[c]].user))
          /\ rooms' = RegistryLeave(rooms, socks[socket[c]].room, socks[socket[c]].user)
     ELSE UNCHANGED <<socks, rooms>>
  /\ isConnected' = [isConnected EXCEPT ![c] = FALSE]
  /\ roomId' = [roomId EXCEPT ![c] = NULL]
  /\ userId' = [userId EXCEPT ![c] = 0]
  /\ participants' = [participants EXCEPT ![c] = <<>>]
  /\ chatMessages' = [chatMessages EXCEPT ![c] = <<>>]
  /\ socket' = [socket EXCEPT ![c] = 0]
  /\ lastEdit' = [lastEdit EXCEPT ![c] = NoEdit]
  /\ unsent' = [unsent EXCEPT ![c] = FALSE]
  /\ applog' = [applog EXCEPT ![c] = <<>>]
  /\ UNCHANGED <<circuit, nextId, http, error, nextUser, order, left, simVars, authVars>>

LeaveRoom(c) == leaveRoom(c)

\* ---- local edits (CircuitBuilder, CircuitControls) -----------------------
\* The connection state of a client, as the claims name it.
ConnState(c) ==
  IF socket[c] # 0 /\ isConnected[c] THEN "connected"
  ELSE IF \E s \in 1..Len(socks) : socks[s].owner = c /\ socks[s].st = "connecting" THEN "connecting"
  ELSE IF roomId[c] = NULL THEN "idle"
  ELSE "disconnected"

\* The history of a local edit: made in a room, it becomes the edit whose
\* operation is still to be sent; an earlier one still waiting is superseded.
NoteEdit(c, edit) ==
  /\ left.edits > 0
  /\ left' = [left EXCEPT !.edits = @ - 1]
  /\ IF roomId[c] # NULL
     THEN /\ lastEdit' = [lastEdit EXCEPT ![c] = edit @@ [conn |-> ConnState(c)]]
          /\ unsent' = [unsent EXCEPT ![c] = @ \/ lastEdit[c].kind # "none"]
     ELSE UNCHANGED <<lastEdit, unsent>>

handleCellClick_needsConnection(c, qubit, step, type) ==
  /\ isConnected[c]
  /\ qubit < circuit[c].numQubits
  /\ LET existingGate == getGateAt(circuit[c].gates, qubit, step)
     IN  IF existingGate # <<>>
         THEN /\ circuit' = [circuit EXCEPT ![c] = removeGate(@, existingGate[1].id)]
              /\ NoteEdit(c, [kind |-> "remove", gate_id |-> existingGate[1].id])
              /\ UNCHANGED nextId
         ELSE /\ circuit' = [circuit EXCEPT ![c] =
                   addGate(@, [type |-> type, qubit |-> qubit, step |-> step], <<c, nextId[c]>>)]
              /\ NoteEdit(c, [kind |-> "add",
                              gate |-> [id |-> <<c, nextId[c]>>, type |-> type,
                                        qubit |-> qubit, step |-> step]])
              /\ nextId' = [nextId EXCEPT ![c] = @ + 1]
  /\ simulationResult' = [simulationResult EXCEPT ![c] = NoResult]
  /\ UNCHANGED <<applog, isConnected, roomId, userId, participants, chatMessages, socket, http,
                 error, socks, rooms, nextUser, order, isSimulating, simRequest, authVars>>

\* handleCellClick(qubit, step) with selectedGate = type: a gate found at the
\* cell is removed, else the selected gate is added.  Only the circuit store
\* is called; no send* action of the collaboration store is.
handleCellClick(c, qubit, step, type) ==
  /\ qubit < circuit[c].numQubits
  /\ LET existingGate == getGateAt(circuit[c].gates, qubit, step)
     IN  IF existingGate # <<>>
         THEN /\ circuit' = [circuit EXCEPT ![c] = removeGate(@, existingGate[1].id)]
              /\ NoteEdit(c, [kind |-> "remove", gate_id |-> existingGate[1].id])
              /\ UNCHANGED nextId
         ELSE /\ circuit' = [circuit EXCEPT ![c] =
                   addGate(@, [type |-> type, qubit |-> qubit, step |-> step], <<c, nextId[c]>>)]
              /\ NoteEdit(c, [kind |-> "add",
                              gate |-> [id |-> <<c, nextId[c]>>, type |-> type,
                                        qubit |-> qubit, step |-> step]])
              /\ nextId' = [nextId EXCEPT ![c] = @ + 1]
  /\ simulationResult' = [simulationResult EXCEPT ![c] = NoResult]
  /\ UNCHANGED <<applog, isConnected, roomId, userId, participants, chatMessages, socket, http,
                 error, socks, rooms, nextUser, order, isSimulating, simRequest, authVars>>

\* The qubit buttons: setNumQubits(numQubits - 1), disabled at 1, and
\* setNumQubits(numQubits + 1), disabled at 16.  The model keeps the count
\* within MaxQubitDrop of the default.
qubitButton(c, delta) ==
  /\ delta = -1 => circuit[c].numQubits > MinNumQubits
  /\ delta = 1 => circuit[c].numQubits < MaxNumQubits
  /\ circuit[c].numQubits + delta \in (DefaultNumQubits - MaxQubitDrop)..DefaultNumQubits
  /\ circuit' = [circuit EXCEPT ![c] = setNumQubits(@, @.numQubits + delta)]
  /\ NoteEdit(c, [kind |-> "qubits", num_qubits |-> circuit[c].numQubits + delta])
  /\ simulationResult' = [simulationResult EXCEPT ![c] = NoResult]
  /\ UNCHANGED <<applog, nextId, isConnected, roomId, userId, participants, chatMessages, socket,
                 http, error, socks, rooms, nextUser, order, isSimulating, simRequest, authVars>>

\* The Clear button: clearCircuit().
clearCircuit(c) ==
  /\ circuit' = [circuit EXCEPT ![c] = createEmptyCircuit]
  /\ NoteEdit(c, [kind |-> "replace", circuit |-> createEmptyCircuit])
  /\ simulationResult' = [simulationResult EXCEPT ![c] = NoResult]
  /\ UNCHANGED <<applog, nextId, isConnected, roomId, userId, participants, chatMessages, socket,
                 http, error, socks, rooms, nextUser, order, isSimulating, simRequest, authVars>>

\* circuitStore.updateGate(gateId, {qubit, step}) called on a gate of the
\* circuit: the store's move of a gate.
moveGate(c, gateId, qubit, step) ==
  /\ \E g \in Range(circuit[c].gates) : g.id = gateId /\ <<g.qubit, g.step>> # <<qubit, step>>
  /\ qubit < circuit[c].numQubits
  /\ circuit' = [circuit EXCEPT ![c] = updateGate(@, gateId, [qubit |-> qubit, step |-> step])]
  /\ NoteEdit(c, [kind |-> "move", gate_id |-> gateId, qubit |-> qubit, step |-> step])
  /\ simulationResult' = [simulationResult EXCEPT ![c] = NoResult]
  /\ UNCHANGED <<applog, nextId, isConnected, roomId, userId, participants, chatMessages, socket,
                 http, error, socks, rooms, nextUser, order, isSimulating, simRequest, authVars>>

\* ---- the send* actions ----------------------------------------------------
\* Every send* action: nothing is sent unless the store holds a socket and
\* isConnected.  The operation reaches the registry on that socket.
canSend(c) == socket[c] # 0 /\ isConnected[c]

\* A document operation is sent for the local edit that waits for it.
SendEdit(c, kind, op) ==
  /\ lastEdit[c].kind = kind
  /\ canSend(c)
  /\ SubmitOperation(socket[c], op)
  /\ lastEdit' = [lastEdit EXCEPT ![c] = NoEdit]
  /\ UNCHANGED <<applog, circuit, nextId, isConnected, roomId, userId, participants,
                 chatMessages, socket, http, error, nextUser, unsent, left, simVars, authVars>>

sendGateAdd(c) ==
  SendEdit(c, "add", [type |-> "gate_add", gate |-> lastEdit[c].gate])

sendGateRemove(c) ==
  SendEdit(c, "remove", [type |-> "gate_remove", gate_id |-> lastEdit[c].gate_id])

sendGateMove(c) ==
  SendEdit(c, "move", [type |-> "gate_move", gate_id |-> lastEdit[c].gate_id,
                       qubit |-> lastEdit[c].qubit, step |-> lastEdit[c].step])

sendCircuitUpdate(c) ==
  SendEdit(c, "replace", [type |-> "circuit_update", circuit |-> circuit[c]])

sendQubitCountChange(c) ==
  SendEdit(c, "qubits", [type |-> "qubit_count_change", num_qubits |-> lastEdit[c].num_qubits])

\* A send* action called for the waiting edit while the store holds no socket
\* or isConnected is false: the guard fails and the call returns, having set
\* and thrown nothing.  Only the history changes: the edit's operation was
\* not sent.
sendDropped(c) ==
  /\ lastEdit[c].kind # "none"
  /\ ~canSend(c)
  /\ lastEdit' = [lastEdit EXCEPT ![c] = NoEdit]
  /\ unsent' = [unsent EXCEPT ![c] = TRUE]
  /\ UNCHANGED <<applog, circuit, nextId, isConnected, roomId, userId, participants,
                 chatMessages, socket, http, error, socks, rooms, nextUser, order, left, simVars, authVars>>

SendPresence(c, op) ==
  /\ canSend(c)
  /\ left.chats > 0
  /\ left' = [left EXCEPT !.chats = @ - 1]
  /\ SubmitOperation(socket[c], op)
  /\ UNCHANGED <<applog, circuit, nextId, isConnected, roomId, userId, participants,
                 chatMessages, socket, http, error, nextUser, lastEdit, unsent, simVars, authVars>>

sendCursorMove(c) == SendPresence(c, [type |-> "cursor_move", cursor |-> SomeCursor])

sendChatMessage(c) == SendPresence(c, [type |-> "chat_message", message |-> "hi"])

(* ============================ specifications =========================== *)
JoinCodes == {RoomCodes[i] : i \in 1..Len(RoomCodes)} \cup {UnknownCode}

\* Spec: the whole life of a session, from the constructed stores: rooms
\* are created and joined, sockets open and close, local edits are made and
\* their operations sent.
Next ==
  \/ \E c \in Clients : CreateRoomRequest(c)
  \/ \E c \in Clients : CreateRoomResponse(c)
  \/ \E c \in Clients, code \in JoinCodes : JoinRoomRequest(c, code)
  \/ \E c \in Clients : JoinRoomFailed(c)
  \/ \E c \in Clients : JoinRoomResponse(c)
  \/ \E s \in 1..Len(socks) : SocketOpen(s)
  \/ \E s \in 1..Len(socks) : SocketMessage(s)
  \/ \E s \in 1..Len(socks) : SocketLost(s)
  \/ \E s \in 1..Len(socks) : SocketClosed(s)
  \/ \E c \in Clients : LeaveRoom(c)
  \/ \E c \in Clients, q \in CellQubits, st \in Steps, t \in GateTypes : handleCellClick(c, q, st, t)
  \/ \E c \in Clients, d \in {-1, 1} : qubitButton(c, d)
  \/ \E c \in Clients : clearCircuit(c)
  \/ \E c \in Clients, q \in CellQubits, st \in Steps :
        \E g \in Range(circuit[c].gates) : moveGate(c, g.id, q, st)
  \/ \E c \in Clients : sendGateAdd(c)
  \/ \E c \in Clients : sendGateRemove(c)
  \/ \E c \in Clients : sendGateMove(c)
  \/ \E c \in Clients : sendCircuitUpdate(c)
  \/ \E c \in Clients : sendQubitCountChange(c)

Spec == Init /\ [][Next]_vars

\* The state in which client 1 has created room AB12 from the circuit doc,
\* its socket has opened and room_state has been handled.
InRoomOf(doc) ==
  /\ circuit = [c \in Clients |-> IF c = 1 THEN doc ELSE createEmptyCircuit]
  /\ nextId = [c \in Clients |-> 1]
  /\ isConnected = [c \in Clients |-> c = 1]
  /\ roomId = [c \in Clients |-> IF c = 1 THEN RoomCodes[1] ELSE NULL]
  /\ userId = [c \in Clients |-> IF c = 1 THEN 1 ELSE 0]
  /\ participants = [c \in Clients |->
        IF c = 1 THEN <<[user_id |-> 1, cursor |-> NoCursor]>> ELSE <<>>]
  /\ chatMessages = [c \in Clients |-> <<>>]
  /\ socket = [c \in Clients |-> IF c = 1 THEN 1 ELSE 0]
  /\ http = [c \in Clients |-> NoHttp]
  /\ error = [c \in Clients |-> NULL]
  /\ lastEdit = [c \in Clients |-> NoEdit]
  /\ unsent = [c \in Clients |-> FALSE]
  /\ applog = [c \in Clients |-> <<>>]
  /\ simulationResult = [c \in Clients |-> NoResult]
  /\ isSimulating = [c \in Clients |-> FALSE]
  /\ simRequest = [c \in Clients |-> NoRequest]
  /\ REFRESH_TOKEN = StoredRefreshToken
  /\ ACCESS_TOKEN = StoredAccessToken
  /\ calls = <<>>
  /\ settled = NULL
  /\ refreshes = 0
  /\ socks = <<[owner |-> 1, room |-> RoomCodes[1], user |-> 1, st |-> "open",
                inbox |-> <<>>, from |-> 0, applied |-> <<>>, snap |-> 0]>>
  /\ rooms = <<[id |-> RoomCodes[1], numQubits |-> doc.numQubits,
                gates |-> doc.gates, name |-> doc.name,
                roster |-> <<[user_id |-> 1, cursor |-> NoCursor]>>]>>
  /\ nextUser = 2
  /\ order = << <<>> >>

InRoom == InRoomOf(PersistedCircuit)

\* SpecRoom: from InRoom, one more session may join the room, and the
\* participants edit and send.
InitRoom ==
  /\ InRoom
  /\ left = [rooms |-> 0, socks |-> RoomSockets, edits |-> RoomEdits, chats |-> 0, fails |-> 0, msgs |-> 0, sims |-> 0, apis |-> 0]

NextRoom ==
  \/ \E c \in Clients : JoinRoomRequest(c, RoomCodes[1])
  \/ \E c \in Clients : JoinRoomResponse(c)
  \/ \E s \in 1..Len(socks) : SocketOpen(s)
  \/ \E s \in 1..Len(socks) : SocketMessage(s)
  \/ \E c \in Clients, q \in CellQubits, st \in Steps, t \in GateTypes : handleCellClick(c, q, st, t)
  \/ \E c \in Clients, d \in {-1, 1} : qubitButton(c, d)
  \/ \E c \in Clients : clearCircuit(c)
  \/ \E c \in Clients, q \in CellQubits, st \in Steps :
        \E g \in Range(circuit[c].gates) : moveGate(c, g.id, q, st)
  \/ \E c \in Clients : sendGateAdd(c)
  \/ \E c \in Clients : sendGateRemove(c)
  \/ \E c \in Clients : sendGateMove(c)
  \/ \E c \in Clients : sendCircuitUpdate(c)
  \/ \E c \in Clients : sendQubitCountChange(c)

SpecRoom == InitRoom /\ [][NextRoom]_vars

\* SpecSessions: from the constructed stores, several rooms and several
\* sessions per client; the one local edit is a click on a cell.
InitSessions ==
  /\ InitClients
  /\ socks = <<>>
  /\ rooms = <<>>
  /\ nextUser = 1
  /\ order = <<>>
  /\ left = [rooms |-> SessionRooms, socks |-> SessionSockets, edits |-> SessionEdits,
             chats |-> 0, fails |-> 0, msgs |-> 0, sims |-> 0, apis |-> 0]

NextSessions ==
  \/ \E c \in Clients : CreateRoomRequest(c)
  \/ \E c \in Clients : CreateRoomResponse(c)
  \/ \E c \in Clients, code \in JoinCodes : JoinRoomRequest(c, code)
  \/ \E c \in Clients : JoinRoomResponse(c)
  \/ \E s \in 1..Len(socks) : SocketOpen(s)
  \/ \E s \in 1..Len(socks) : SocketMessage(s)
  \/ \E c \in Clients, q \in CellQubits, st \in Steps, t \in GateTypes : handleCellClick(c, q, st, t)
  \/ \E c \in Clients : sendGateAdd(c)

SpecSessions == InitSessions /\ [][NextSessions]_vars

\* SpecPresence: from InRoom, one more session may join, and the participants
\* send cursor and chat messages, leave and lose their sockets.
InitPresence ==
  /\ InRoom
  /\ left = [rooms |-> 0, socks |-> RoomSockets, edits |-> 0, chats |-> PresenceMessages, fails |-> 0, msgs |-> 0, sims |-> 0, apis |-> 0]

NextPresence ==
  \/ \E c \in Clients : JoinRoomRequest(c, RoomCodes[1])
  \/ \E c \in Clients : JoinRoomResponse(c)
  \/ \E s \in 1..Len(socks) : SocketOpen(s)
  \/ \E s \in 1..Len(socks) : SocketMessage(s)
  \/ \E s \in 1..Len(socks) : SocketLost(s)
  \/ \E s \in 1..Len(socks) : SocketClosed(s)
  \/ \E c \in Clients : LeaveRoom(c)
  \/ \E c \in Clients : sendCursorMove(c)
  \/ \E c \in Clients : sendChatMessage(c)

SpecPresence == InitPresence /\ [][NextPresence]_vars

\* SpecCapacity: from the constructed stores, with a registry that may refuse
\* a create or a join for capacity.
InitCapacity ==
  /\ InitClients
  /\ socks = <<>>
  /\ rooms = <<>>
  /\ nextUser = 1
  /\ order = <<>>
  /\ left = [rooms |-> MaxRooms, socks |-> CapacitySockets, edits |-> 0, chats |-> 0,
             fails |-> CapacityRejections, msgs |-> 0, sims |-> 0, apis |-> 0]

NextCapacity ==
  \/ \E c \in Clients : CreateRoomRequest(c)
  \/ \E c \in Clients, parses \in BOOLEAN : CreateRoomRejected(c, parses)
  \/ \E c \in Clients : CreateRoomResponse(c)
  \/ \E c \in Clients : CreateRoomFailed(c)
  \/ \E c \in Clients, code \in JoinCodes : JoinRoomRequest(c, code)
  \/ \E c \in Clients, code \in JoinCodes : JoinRoomRejected(c, code)
  \/ \E c \in Clients : JoinRoomFailed(c)
  \/ \E c \in Clients : JoinRoomResponse(c)
  \/ \E s \in 1..Len(socks) : SocketOpen(s)
  \/ \E s \in 1..Len(socks) : SocketMessage(s)
  \/ \E s \in 1..Len(socks) : SocketLost(s)

SpecCapacity == InitCapacity /\ [][NextCapacity]_vars

\* SpecJoinCase: from InRoom, joins by codes written in any letter case,
\* typed or taken from the URL; sessions open, are left and close.
JoinTexts == {"AB12", "ab12", "Ab12", "zz99"}

InitJoinCase ==
  /\ InRoom
  /\ left = [rooms |-> 0, socks |-> CaseSockets, edits |-> 0, chats |-> 0,
             fails |-> CaseFailedJoins, msgs |-> 0, sims |-> 0, apis |-> 0]

NextJoinCase ==
  \/ \E c \in Clients, path \in {"typed", "url"}, text \in JoinTexts : handleJoin(c, path, text)
  \/ \E c \in Clients : JoinRoomFailed(c)
  \/ \E c \in Clients : JoinRoomResponse(c)
  \/ \E s \in 1..Len(socks) : SocketOpen(s)
  \/ \E s \in 1..Len(socks) : SocketMessage(s)
  \/ \E c \in Clients : LeaveRoom(c)
  \/ \E s \in 1..Len(socks) : SocketClosed(s)

SpecJoinCase == InitJoinCase /\ [][NextJoinCase]_vars

\* SpecOffline: from InRoom, the participants edit and send while sockets
\* open, are lost and are closed by leaveRoom.
InitOffline ==
  /\ InRoom
  /\ left = [rooms |-> 0, socks |-> OfflineSockets, edits |-> OfflineEdits, chats |-> 0,
             fails |-> 0, msgs |-> 0, sims |-> 0, apis |-> 0]

NextOffline ==
  \/ \E c \in Clients : JoinRoomRequest(c, RoomCodes[1])
  \/ \E c \in Clients : JoinRoomResponse(c)
  \/ \E s \in 1..Len(socks) : SocketOpen(s)
  \/ \E s \in 1..Len(socks) : SocketMessage(s)
  \/ \E s \in 1..Len(socks) : SocketLost(s)
  \/ \E s \in 1..Len(socks) : SocketClosed(s)
  \/ \E c \in Clients : LeaveRoom(c)
  \/ \E c \in Clients, q \in CellQubits, st \in Steps, t \in GateTypes : handleCellClick(c, q, st, t)
  \/ \E c \in Clients, d \in {-1, 1} : qubitButton(c, d)
  \/ \E c \in Clients : sendGateAdd(c)
  \/ \E c \in Clients : sendGateRemove(c)
  \/ \E c \in Clients : sendQubitCountChange(c)
  \/ \E c \in Clients : sendDropped(c)

SpecOffline == InitOffline /\ [][NextOffline]_vars

\* ---- the replica under the messages of the network ------------------------
\* socket.onmessage with the message the network delivers: JSON.parse, then
\* handleMessage, whatever the message holds.
onmessage(s, data) ==
  /\ s \in 1..Len(socks)
  /\ socks[s].st = "open"
  /\ left.msgs > 0
  /\ left' = [left EXCEPT !.msgs = @ - 1]
  /\ handleMessage(socks[s].owner, data)
  /\ UNCHANGED <<isConnected, roomId, userId, socket, http, error, socks, rooms, nextUser,
                 order, lastEdit, unsent, applog, isSimulating, simRequest, authVars>>

\* Gates as the lessons, the experiment templates and the grid make them
\* (types/quantum Gate): controlQubit and controlQubit2 are optional.
GateH == [id |-> <<0, 1>>, type |-> "H", qubit |-> 0, step |-> 0]
GateCNOT == [id |-> <<0, 2>>, type |-> "CNOT", qubit |-> 1, step |-> 1, controlQubit |-> 3]
GateTOFFOLI == [id |-> <<0, 3>>, type |-> "TOFFOLI", qubit |-> 0, step |-> 2,
                controlQubit |-> 1, controlQubit2 |-> 3]
GateX == [id |-> <<0, 4>>, type |-> "X", qubit |-> 3, step |-> 0]
AbsentGateId == <<0, 9>>

\* The documents a replica starts from: 4 qubits, every gate inside.
Documents ==
  {[createEmptyCircuit EXCEPT !.gates = gs] :
     gs \in {<<>>, <<GateH>>, <<GateH, GateCNOT>>, <<GateTOFFOLI, GateH>>,
             <<GateX, GateH, GateCNOT>>}}

\* The documents a circuit_update carries; the name may be empty.
Payloads == Documents \cup {[createEmptyCircuit EXCEPT !.gates = <<GateCNOT>>, !.name = ""]}

\* The counts a qubit_count_change carries, the ends of the range included.
QubitCounts == {MinNumQubits - 1, 2, 3, MaxNumQubits + 1}
MoveIds == {GateH.id, GateCNOT.id, AbsentGateId}
MoveQubits == {0, 2}

QubitCountChanged(n) == [type |-> "qubit_count_changed", num_qubits |-> n]
GateMoved(id, q, st) == [type |-> "gate_moved", gate_id |-> id, qubit |-> q, step |-> st]
CircuitUpdated(doc) == [type |-> "circuit_updated", circuit |-> doc]
GateAdded(t, q, st) == [type |-> "gate_added", gate |-> [type |-> t, qubit |-> q, step |-> st]]

\* SpecReplica: client 1 is in a room it created from one of Documents; the
\* network delivers document messages, the clients use the qubit buttons
\* and move gates.
InitReplica ==
  /\ \E doc \in Documents : InRoomOf(doc)
  /\ left = [rooms |-> 0, socks |-> 0, edits |-> ReplicaEdits, chats |-> 0, fails |-> 0,
             msgs |-> ReplicaMessages, sims |-> 0, apis |-> 0]

NextReplica ==
  \/ \E s \in 1..Len(socks), n \in QubitCounts : onmessage(s, QubitCountChanged(n))
  \/ \E s \in 1..Len(socks), id \in MoveIds, q \in MoveQubits, st \in Steps :
        onmessage(s, GateMoved(id, q, st))
  \/ \E s \in 1..Len(socks), doc \in Payloads : onmessage(s, CircuitUpdated(doc))
  \/ \E s \in 1..Len(socks), t \in GateTypes : onmessage(s, GateAdded(t, DefaultNumQubits - 1, 0))
  \/ \E c \in Clients, d \in {-1, 1} : qubitButton(c, d)
  \/ \E c \in Clients, q \in MoveQubits, st \in Steps :
        \E g \in Range(circuit[c].gates) : moveGate(c, g.id, q, st)

SpecReplica == InitReplica /\ [][NextReplica]_vars

\* ---- simulation (CircuitControls, circuitStore) ----------------------------
\* handleSimulate up to its await: the Simulate button is disabled while
\* isSimulating or with no gate; setIsSimulating(true), then simulateSteps is
\* called with the circuit of this render.
handleSimulate(c) ==
  /\ ~isSimulating[c]
  /\ Len(circuit[c].gates) # 0
  /\ left.sims > 0
  /\ left' = [left EXCEPT !.sims = @ - 1]
  /\ isSimulating' = [isSimulating EXCEPT ![c] = TRUE]
  /\ simRequest' = [simRequest EXCEPT ![c] =
        [kind |-> "steps", numQubits |-> circuit[c].numQubits, gates |-> circuit[c].gates]]
  /\ UNCHANGED <<clientVars, socks, serverVars, order, lastEdit, unsent, applog,
                 simulationResult, authVars>>

\* setSimulationResult(result): the result is stored, whatever the circuit is
\* by now.
setSimulationResult(c, result) ==
  simulationResult' = [simulationResult EXCEPT ![c] = result]

\* handleSimulate after its await.  The call resolved: the result the server
\* computed from the circuit it was sent is stored.  The call was rejected:
\* generateMockResult(circuit.numQubits) of the same render's circuit is
\* stored, random amplitudes for that many qubits.  Then
\* setIsSimulating(false).
simulateSettled(c, resolved) ==
  /\ simRequest[c].kind = "steps"
  /\ setSimulationResult(c,
        IF resolved
        THEN [kind |-> "result", numQubits |-> simRequest[c].numQubits,
              gates |-> simRequest[c].gates]
        ELSE [kind |-> "mock", numQubits |-> simRequest[c].numQubits])
  /\ isSimulating' = [isSimulating EXCEPT ![c] = FALSE]
  /\ simRequest' = [simRequest EXCEPT ![c] = NoRequest]
  /\ UNCHANGED <<clientVars, socks, serverVars, histVars, authVars>>

\* SpecSimulate: client 1 is in its room; the clients simulate and edit, the
\* network delivers document messages.
InitSimulate ==
  /\ InRoom
  /\ left = [rooms |-> 0, socks |-> 0, edits |-> SimulateEdits, chats |-> 0, fails |-> 0,
             msgs |-> SimulateMessages, sims |-> MaxSimulations, apis |-> 0]

NextSimulate ==
  \/ \E c \in Clients : handleSimulate(c)
  \/ \E c \in Clients, resolved \in BOOLEAN : simulateSettled(c, resolved)
  \/ \E c \in Clients, q \in CellQubits, st \in Steps, t \in GateTypes : handleCellClick(c, q, st, t)
  \/ \E c \in Clients, d \in {-1, 1} : qubitButton(c, d)
  \/ \E c \in Clients : clearCircuit(c)
  \/ \E s \in 1..Len(socks), t \in GateTypes : onmessage(s, GateAdded(t, 1, 0))
  \/ \E s \in 1..Len(socks) : onmessage(s, QubitCountChanged(DefaultNumQubits - 1))

SpecSimulate == InitSimulate /\ [][NextSimulate]_vars

\* ---- the API client's token refresh (part_012) -----------------------------
\* setTokens(access, refresh) and clearTokens().
setTokens(access, refresh) ==
  /\ ACCESS_TOKEN' = access
  /\ REFRESH_TOKEN' = refresh

clearTokens == setTokens(NULL, NULL)

\* A call of apiClient in progress: its url, the _retry flag on its config,
\* and where it stands: "sent" (the request is with the server) or
\* "refreshing" (its response interceptor awaits the refresh it posted).
Call(url, retry, pc) == [url |-> url, retry |-> retry, pc |-> pc]
RefreshUrl == "/api/auth/refresh"
ApiUrls == {"/api/auth/me", "/api/circuits"}
ErrorStatuses == {401, 500}

\* The application calls apiClient (authApi.me, circuitApi.save, ...).
apiRequest(url) ==
  /\ calls = <<>>
  /\ left.apis > 0
  /\ left' = [left EXCEPT !.apis = @ - 1]
  /\ calls' = <<Call(url, FALSE, "sent")>>
  /\ settled' = NULL
  /\ refreshes' = 0
  /\ UNCHANGED <<clientVars, socks, serverVars, order, lastEdit, unsent, applog, simVars,
                 REFRESH_TOKEN, ACCESS_TOKEN>>

\* authApi.login resolved: setTokens with the tokens of the response.
login ==
  /\ calls = <<>>
  /\ REFRESH_TOKEN # FreshRefreshToken
  /\ setTokens(FreshAccessToken, FreshRefreshToken)
  /\ UNCHANGED <<clientVars, socks, serverVars, histVars, simVars, calls, settled, refreshes>>

\* authApi.logout's finally: clearTokens().
logout ==
  /\ calls = <<>>
  /\ REFRESH_TOKEN # NULL
  /\ clearTokens
  /\ UNCHANGED <<clientVars, socks, serverVars, histVars, simVars, calls, settled, refreshes>>

\* The server answers the innermost call with a 2xx: the interceptor's first
\* function returns the response.  The outermost call resolves for the
\* application.  A refresh posted by an interceptor resolves into that
\* interceptor: setTokens with the new tokens, then apiClient(originalRequest),
\* the original request sent again with _retry set.
responseFulfilled ==
  /\ calls # <<>>
  /\ calls[Len(calls)].pc = "sent"
  /\ IF Len(calls) = 1
     THEN /\ calls' = <<>>
          /\ settled' = "resolved"
          /\ UNCHANGED <<REFRESH_TOKEN, ACCESS_TOKEN>>
     ELSE /\ calls' = [SubSeq(calls, 1, Len(calls) - 1) EXCEPT ![Len(calls) - 1].pc = "sent"]
          /\ setTokens(FreshAccessToken, FreshRefreshToken)
          /\ UNCHANGED settled
  /\ UNCHANGED <<clientVars, socks, serverVars, histVars, simVars, refreshes>>

\* The server answers the innermost call with an error status: the
\* interceptor's second function runs on it.  A 401 on a config without
\* _retry, with a refresh token stored: _retry is set on that config and
\* apiClient.post('/api/auth/refresh') is called, a new call with a config of
\* its own, through the same interceptors.  Otherwise the call is rejected;
\* every interceptor awaiting it down the chain catches, calls clearTokens
\* and rejects in turn, so the outermost call is rejected.
responseRejected(status) ==
  /\ calls # <<>>
  /\ calls[Len(calls)].pc = "sent"
  /\ IF status = 401 /\ ~calls[Len(calls)].retry /\ REFRESH_TOKEN # NULL
     THEN /\ Len(calls) < MaxCallDepth
          /\ calls' = Append([calls EXCEPT ![Len(calls)].retry = TRUE,
                                           ![Len(calls)].pc = "refreshing"],
                             Call(RefreshUrl, FALSE, "sent"))
          /\ refreshes' = refreshes + 1
          /\ UNCHANGED <<REFRESH_TOKEN, ACCESS_TOKEN, settled>>
     ELSE /\ calls' = <<>>
          /\ settled' = "rejected"
          /\ IF Len(calls) > 1 THEN clearTokens ELSE UNCHANGED <<REFRESH_TOKEN, ACCESS_TOKEN>>
          /\ UNCHANGED refreshes
  /\ UNCHANGED <<clientVars, socks, serverVars, histVars, simVars>>

\* SpecAuth: the application logs in and out and calls the API; the server
\* answers every request with a 2xx, a 401 or a 500.
InitAuth ==
  /\ InitClients
  /\ socks = <<>>
  /\ rooms = <<>>
  /\ nextUser = 1
  /\ order = <<>>
  /\ left = [rooms |-> 0, socks |-> 0, edits |-> 0, chats |-> 0, fails |-> 0,
             msgs |-> 0, sims |-> 0, apis |-> MaxApiRequests]

NextAuth ==
  \/ \E url \in ApiUrls : apiRequest(url)
  \/ login
  \/ logout
  \/ responseFulfilled
  \/ \E status \in ErrorStatuses : responseRejected(status)

SpecAuth == InitAuth /\ [][NextAuth]_vars

(* ============================== properties ============================= *)
\* The session of client c: the socket connectWebSocket made for the
\* participant id the store holds.
SessionSocket(c) ==
  {s \in 1..Len(socks) : socks[s].owner = c /\ userId[c] # 0 /\ socks[s].user = userId[c]}

Connected(c) == isConnected[c] /\ roomId[c] # NULL

\* Nothing is in flight: no fetch is awaiting, no socket is connecting or
\* closing, every message has been handled.
Quiescent ==
  /\ \A c \in Clients : http[c].kind = "none"
  /\ \A s \in 1..Len(socks) : socks[s].st \in {"open", "closed"} /\ socks[s].inbox = <<>>

\* Every in-room edit has had its operation sent.
AllEditsSent == \A c \in Clients : lastEdit[c].kind = "none" /\ ~unsent[c]

\* Every operation a room has received went to every channel that is open:
\* none was submitted before one of them opened.
AllDelivered ==
  \A s \in 1..Len(socks) : socks[s].st = "open" => socks[s].from = 0

\* InRoom is a state Spec reaches (with what is left of its budget).
InRoomReached == ~InRoom

\* C5: a local edit made in a room is applied to the replica and its
\* operation is sent: the handler that changes the replica of a client that
\* is in a room and can send also hands an operation to the room.
C5_LocalEditIsSent ==
  [][\A c \in Clients :
       (left'.edits < left.edits /\ circuit'[c] # circuit[c] /\ roomId[c] # NULL /\ canSend(c))
         => order' # order]_vars

\* A client that can send holds an edit whose operation has not been sent.
C5_EditNotSent ==
  \E c \in Clients : canSend(c) /\ roomId[c] # NULL /\ lastEdit[c].kind # "none"

\* C8: leaveRoom, in any state of the client, closes the session's socket,
\* resets the collaboration state and leaves the circuit as it is.
C8_LeaveClosesAndResets ==
  [][\A c \in Clients : leaveRoom(c) =>
       /\ ~isConnected'[c] /\ roomId'[c] = NULL /\ userId'[c] = 0
       /\ participants'[c] = <<>> /\ chatMessages'[c] = <<>> /\ socket'[c] = 0
       /\ circuit'[c] = circuit[c]
       /\ \A s \in SessionSocket(c) : socks'[s].st \notin {"connecting", "open"}]_vars

\* A client whose collaboration state is reset still owns a socket that is
\* connecting or open.
C8_SocketSurvivesLeave ==
  \E c \in Clients : roomId[c] = NULL /\ userId[c] = 0 /\ http[c].kind = "none"
     /\ \E s \in 1..Len(socks) : socks[s].owner = c /\ socks[s].st \in {"connecting", "open"}

\* C9: the step in which joinRoom succeeds gives the replica the qubit count
\* and the gates of the snapshot and the store the returned roster, and the
\* session's socket is only then constructed, with nothing received and no
\* remote operation applied in the session.
C9_JoinInstallsSnapshot ==
  [][\A c \in Clients :
       (http[c].kind = "join" /\ http[c].ok /\ http'[c].kind = "none") =>
         /\ circuit'[c].numQubits = http[c].circuit.numQubits
         /\ circuit'[c].gates = http[c].circuit.gates
         /\ participants'[c] = http[c].participants
         /\ roomId'[c] = http[c].room_id
         /\ applog'[c] = <<>>
         /\ Len(socks') = Len(socks) + 1
         /\ \A s \in 1..Len(socks) : socks[s].user # http[c].user_id
         /\ LET new == socks'[Len(socks')]
            IN  /\ new.owner = c /\ new.user = http[c].user_id /\ new.room = http[c].room_id
                /\ new.st = "connecting" /\ new.inbox = <<>> /\ new.applied = <<>>]_vars

\* Client 2, which started from an empty circuit, has joined the room and
\* holds the room's gate and the roster of two.
C9_Joined ==
  /\ roomId[2] = RoomCodes[1] /\ http[2].kind = "none"
  /\ circuit[2].gates = PersistedCircuit.gates
  /\ Len(participants[2]) = 2
  /\ \E s \in SessionSocket(2) : socks[s].st = "connecting"

\* C10: joinRoom with an unknown room id: neither the request nor the failing
\* response changes the circuit, roomId, userId, the roster, isConnected or
\* the store's socket, no socket is constructed, and the failure is reported
\* as 'Room not found'.
C10_FailedJoinChangesNothing ==
  [][\A c \in Clients :
       (/\ http'[c] # http[c]
        /\ \/ http[c].kind = "join" /\ ~http[c].ok
           \/ http'[c].kind = "join" /\ ~http'[c].ok) =>
         /\ circuit'[c] = circuit[c] /\ roomId'[c] = roomId[c] /\ userId'[c] = userId[c]
         /\ participants'[c] = participants[c] /\ isConnected'[c] = isConnected[c]
         /\ socket'[c] = socket[c]
         /\ socks' = socks /\ rooms' = rooms
         /\ (http'[c].kind = "none" => error'[c] = "Room not found")]_vars

\* A client that is in a room has had a join fail.
C10_JoinFailed ==
  \E c \in Clients : error[c] = "Room not found" /\ roomId[c] # NULL /\ circuit[c].gates # <<>>

\* ---- the room's order and what each socket's handler applied ------------
\* The positions (in the room's order) of the document operations queued on a
\* socket, in queue order.
DocSeqs(inbox) ==
  LET docs == SelectSeq(inbox, LAMBDA m : m.seq > 0)
  IN  [i \in 1..Len(docs) |-> docs[i].seq]

\* The positions of the room's order a participant is to observe: those after
\* its channel opened that it did not author, in the room's order.
Observed(s) ==
  LET r == CHOOSE i \in RoomIndex(socks[s].room) : TRUE
      theirs == SelectSeq(order[r], LAMBDA e : e.seq > socks[s].from /\ e.author # socks[s].user)
  IN  [i \in 1..Len(theirs) |-> theirs[i].seq]

\* C1: once nothing is in flight, every in-room edit has had its operation
\* sent and every operation has gone to every open channel, the connected
\* clients of a room hold the same qubit count and the same gates (ids, types
\* and cells).
C1_Convergence ==
  (Quiescent /\ AllEditsSent /\ AllDelivered) =>
    \A c, d \in Clients :
      (Connected(c) /\ Connected(d) /\ roomId[c] = roomId[d]) =>
        /\ circuit[c].numQubits = circuit[d].numQubits
        /\ Range(circuit[c].gates) = Range(circuit[d].gates)

\* Two connected clients of a room have settled on different gate sets.
C1_Diverged ==
  /\ Quiescent /\ AllEditsSent /\ AllDelivered
  /\ \E c, d \in Clients :
       /\ Connected(c) /\ Connected(d) /\ roomId[c] = roomId[d]
       /\ Range(circuit[c].gates) # Range(circuit[d].gates)

\* The room's last two operations are gate_add A then gate_add B, of
\* different types, at cell (q, st).
Collision(r, q, st) ==
  /\ Len(order[r]) >= 2
  /\ LET A == order[r][Len(order[r]) - 1].op
         B == order[r][Len(order[r])].op
     IN  /\ A.type = "gate_add" /\ B.type = "gate_add"
         /\ A.gate.qubit = q /\ A.gate.step = st
         /\ B.gate.qubit = q /\ B.gate.step = st
         /\ A.gate.type # B.gate.type

\* C2: after gate_add A and then gate_add B of another type at the same cell
\* have both been delivered to every open channel, the gate every connected client of the room
\* finds at that cell is B's.
C2_LastWriteWins ==
  \A r \in 1..Len(order), q \in CellQubits, st \in Steps :
    (Quiescent /\ AllEditsSent /\ AllDelivered /\ Collision(r, q, st)) =>
      \A c \in Clients :
        (Connected(c) /\ roomId[c] = rooms[r].id) =>
          LET found == getGateAt(circuit[c].gates, q, st)
          IN  found # <<>> /\ found[1].type = order[r][Len(order[r])].op.gate.type

\* A collision has been delivered everywhere and a connected client finds A's
\* type at the cell.
C2_FirstWriteFound ==
  \E r \in 1..Len(order), q \in CellQubits, st \in Steps, c \in Clients :
    /\ Quiescent /\ AllEditsSent /\ AllDelivered /\ Collision(r, q, st)
    /\ Connected(c) /\ roomId[c] = rooms[r].id
    /\ LET found == getGateAt(circuit[c].gates, q, st)
       IN  found # <<>> /\ found[1].type = order[r][Len(order[r]) - 1].op.gate.type

GateIds == {<<k, n>> : k \in 0..NumClients, n \in 1..3}

\* C6: removing a gate id the replica does not hold, through a gate_removed
\* message or through removeGate itself, leaves the qubit count and the gate
\* list as they are.
C6_IdempotentRemoval ==
  [][/\ \A c \in Clients, id \in GateIds :
          (\A g \in Range(circuit[c].gates) : g.id # id) => removeGate(circuit[c], id) = circuit[c]
     /\ \A s \in 1..Len(socks) :
          (/\ socks[s].st = "open" /\ socks[s].inbox # <<>>
           /\ Len(socks') = Len(socks) /\ socks'[s].inbox = Tail(socks[s].inbox)
           /\ Head(socks[s].inbox).type = "gate_removed"
           /\ \A g \in Range(circuit[socks[s].owner].gates) : g.id # Head(socks[s].inbox).gate_id)
          => circuit'[socks[s].owner] = circuit[socks[s].owner]]_vars

\* A client that had removed a gate itself (its operation still to be sent)
\* has handled the removal of the same gate by another participant.
C6_RemovedTwice ==
  \E s \in 1..Len(socks) :
    /\ socks[s].applied # <<>>
    /\ lastEdit[socks[s].owner].kind = "remove"
    /\ LET r == CHOOSE i \in RoomIndex(socks[s].room) : TRUE
           last == order[r][socks[s].applied[Len(socks[s].applied)]].op
       IN  last.type = "gate_remove" /\ last.gate_id = lastEdit[socks[s].owner].gate_id

\* C4: the remote operations applied to a connected client's replica since
\* its snapshot (createRoom or joinRoom resolving) are operations of the room
\* the client is in, at increasing positions of that room's order: the replica
\* is the snapshot with a part of the one order applied, in order, next to
\* the client's own edits.
C4_PrefixConsistency ==
  \A c \in Clients :
    Connected(c) =>
      /\ \A i \in 1..Len(applog[c]) : applog[c][i][1] = roomId[c]
      /\ \A i, j \in 1..Len(applog[c]) : i < j => applog[c][i][2] < applog[c][j][2]

\* A connected client's replica has had an operation of another room applied.
C4_ForeignOperationApplied ==
  \E c \in Clients : Connected(c) /\ \E i \in 1..Len(applog[c]) : applog[c][i][1] # roomId[c]

\* The participant ids on a client's roster, in roster order.
RosterIds(c) == [i \in 1..Len(participants[c]) |-> participants[c][i].user_id]

\* The participants whose channel to the room is open.
OpenChannels(code) ==
  {socks[s].user : s \in {t \in 1..Len(socks) : socks[t].st = "open" /\ socks[t].room = code}}

\* C7: once nothing is in flight, the roster of every connected client holds
\* one entry for each participant with an open channel to the client's room,
\* and no other entry.
C7_PresenceAccuracy ==
  Quiescent =>
    \A c \in Clients :
      Connected(c) =>
        /\ Range(RosterIds(c)) = OpenChannels(roomId[c])
        /\ Len(RosterIds(c)) = Cardinality(OpenChannels(roomId[c]))

\* Nothing is in flight and a connected client's roster names a participant
\* that has no open channel to the client's room.
C7_RosterOfAnotherRoom ==
  /\ Quiescent
  /\ \E c \in Clients : Connected(c) /\ \E u \in Range(RosterIds(c)) : u \notin OpenChannels(roomId[c])

\* C11: a request the server refuses for capacity ends, in the client, with
\* an error that is not the room-not-found error, and a refused createRoom
\* leaves roomId and userId as they were and constructs no socket.
C11_CapacityDistinct ==
  [][\A c \in Clients :
       (/\ http[c].kind # "none" /\ ~http[c].ok /\ http[c].reason = "capacity"
        /\ http'[c].kind = "none") =>
         /\ error'[c] \notin {NULL, "Room not found"}
         /\ http[c].kind \in {"create", "createThrows"} =>
              /\ roomId'[c] = roomId[c] /\ userId'[c] = userId[c]
              /\ socks' = socks]_vars

\* A refused createRoom has left the store with an undefined room and a
\* socket constructed for it.
C11_RefusedCreateConnects ==
  \E c \in Clients : roomId[c] = Undefined /\ userId[c] = UndefinedUser
     /\ \E s \in SessionSocket(c) : socks[s].room = Undefined

\* C12: the step in which a socket closes leaves its client disconnected
\* (isConnected false, socket null), and a socket is constructed only by the
\* step in which a createRoom or joinRoom of its client resolves.
C12_NoAutomaticReconnect ==
  [][/\ \A s \in 1..Len(socks) :
          (socks[s].st # "closed" /\ socks'[s].st = "closed") =>
            ~isConnected'[socks[s].owner] /\ socket'[socks[s].owner] = 0
     /\ Len(socks') >= Len(socks)
     /\ \A s \in 1..Len(socks') :
          s > Len(socks) =>
            /\ s = Len(socks) + 1
            /\ socks'[s].st = "connecting"
            /\ http[socks'[s].owner].kind \in {"create", "join"}
            /\ http'[socks'[s].owner].kind = "none"]_vars

\* A client that was in its room with an open socket has lost it and stands
\* disconnected, still holding the room id.
C12_Disconnected ==
  \E s \in 1..Len(socks) :
    /\ socks[s].st = "closed" /\ socks[s].user = userId[socks[s].owner]
    /\ participants[socks[s].owner] # <<>> /\ roomId[socks[s].owner] # NULL
    /\ ~isConnected[socks[s].owner] /\ socket[socks[s].owner] = 0

\* C13: a socket's close leaves every circuit as it is, and in every
\* connection state the local edits stay enabled (a click on a cell, a change
\* of the qubit count, a move of a gate that exists) and change the circuit.
C13_LocalEditingSurvives ==
  [][/\ \A s \in 1..Len(socks) :
          (socks[s].st # "closed" /\ socks'[s].st = "closed") => circuit' = circuit
     /\ left.edits > 0 =>
          \A c \in Clients :
            /\ ENABLED (\E q \in CellQubits, st \in Steps, t \in GateTypes : handleCellClick(c, q, st, t))
            /\ ENABLED (\E d \in {-1, 1} : qubitButton(c, d))
            /\ circuit[c].gates # <<>> =>
                 ENABLED (\E q \in CellQubits, st \in Steps :
                            \E g \in Range(circuit[c].gates) : moveGate(c, g.id, q, st))
     /\ (left'.edits < left.edits /\ ~(\E c \in Clients : clearCircuit(c))) =>
          \E c \in Clients : circuit'[c] # circuit[c]]_vars

\* A client that lost its socket has edited its circuit while disconnected.
C13_EditedWhileDisconnected ==
  \E c \in Clients : lastEdit[c].kind # "none" /\ lastEdit[c].conn = "disconnected"
     /\ \E s \in SessionSocket(c) : socks[s].st = "closed"

\* The rooms a code names when letter case is disregarded.
RoomsNamed(code) == {r \in 1..Len(rooms) : toUpperCase(rooms[r].id) = toUpperCase(code)}

\* C14: a join request is answered by the room its code names without regard
\* to letter case, whether the code was typed or came from the URL: it fails
\* only when no room has that name, and on success the snapshot, the roster
\* and the session's socket are that room's.
C14_CaseInsensitiveJoin ==
  [][\A c \in Clients :
       /\ (http[c].kind = "none" /\ http'[c].kind = "join") =>
            /\ http'[c].ok <=> RoomsNamed(http'[c].room_id) # {}
            /\ http'[c].ok =>
                 \E r \in RoomsNamed(http'[c].room_id) :
                   /\ http'[c].circuit.gates = rooms[r].gates
                   /\ http'[c].circuit.numQubits = rooms[r].numQubits
                   /\ http'[c].participants = rooms'[r].roster
       /\ (http[c].kind = "join" /\ http[c].ok /\ http'[c].kind = "none") =>
            /\ toUpperCase(roomId'[c]) = toUpperCase(http[c].room_id)
            /\ \E r \in RoomsNamed(http[c].room_id) :
                 toUpperCase(socks'[Len(socks')].room) = rooms[r].id]_vars

\* A client has joined room AB12 under a code in another letter case, its
\* socket is open and the roster of two has arrived.
C14_JoinedInLowerCase ==
  \E c \in Clients : roomId[c] \in {"ab12", "Ab12"} /\ isConnected[c]
     /\ Len(participants[c]) = 2
     /\ \E s \in SessionSocket(c) : socks[s].st = "open" /\ socks[s].inbox = <<>>

\* The presence messages, with every participant id the model hands out as
\* payload.
PresenceKinds == {"room_state", "participant_joined", "participant_left", "cursor_update"}

PresenceIds == 1..(NumClients + RoomSockets + 1)

PresencePayloads(u) ==
  << [type |-> "room_state", participants |-> <<[user_id |-> u, cursor |-> NoCursor]>>],
     [type |-> "participant_joined", participant |-> [user_id |-> u, cursor |-> NoCursor]],
     [type |-> "participant_left", user_id |-> u],
     [type |-> "cursor_update", user_id |-> u, cursor |-> SomeCursor] >>

\* C15: a presence message makes no circuitStore call, whatever its payload
\* and the state; the step that handles one leaves every circuit unchanged;
\* a cursor update sets the cursor of the roster entries it names and changes
\* no other entry, so it changes nothing when it names nobody on the roster.
C15_PresenceLeavesDocument ==
  [][/\ \A c \in Clients, u \in PresenceIds, k \in 1..4 :
          LET m == PresencePayloads(u)[k]
          IN  /\ docCall(m).fn = "none"
              /\ applyCall(circuit[c], docCall(m), <<c, nextId[c]>>) = circuit[c]
              /\ m.type = "cursor_update" =>
                   LET after == rosterAfter(participants[c], m)
                   IN  /\ Len(after) = Len(participants[c])
                       /\ \A i \in 1..Len(after) :
                            IF participants[c][i].user_id = m.user_id
                            THEN after[i] = [participants[c][i] EXCEPT !.cursor = m.cursor]
                            ELSE after[i] = participants[c][i]
     /\ \A s \in 1..Len(socks) :
          (/\ socks[s].st = "open" /\ socks[s].inbox # <<>>
           /\ Len(socks') = Len(socks) /\ socks'[s].st = "open"
           /\ socks'[s].inbox = Tail(socks[s].inbox)
           /\ Head(socks[s].inbox).type \in PresenceKinds)
          => /\ circuit' = circuit /\ nextId' = nextId
             /\ Head(socks[s].inbox).type = "cursor_update" =>
                  \A i \in 1..Len(participants[socks[s].owner]) :
                    participants[socks[s].owner][i].user_id # Head(socks[s].inbox).user_id =>
                      participants'[socks[s].owner][i] = participants[socks[s].owner][i]]_vars

\* A client with two participants on its roster has handled a cursor update:
\* one entry carries the cursor, the other does not.
C15_CursorUpdated ==
  \E c \in Clients : \E i, j \in 1..Len(participants[c]) :
    participants[c][i].cursor = SomeCursor /\ participants[c][j].cursor = NoCursor

\* The step in which socket s hands its next message, of the given kind, to
\* handleMessage.
Handles(s, kind) ==
  /\ socks[s].st = "open" /\ socks[s].inbox # <<>>
  /\ Head(socks[s].inbox).type = kind
  /\ Len(socks') = Len(socks) /\ socks'[s].st = "open"
  /\ socks'[s].inbox = Tail(socks[s].inbox)

\* C16: a gate added through a remote gate_add is, in the receiver's replica,
\* the gate the sender holds: same id, type, qubit and step.
C16_RemoteAddSameGate ==
  [][\A s \in 1..Len(socks) :
       Handles(s, "gate_added") =>
         Head(socks[s].inbox).gate \in Range(circuit'[socks[s].owner].gates)]_vars

\* A receiver holds the gate of a remote gate_add under an id of its own, and
\* not under the sender's id.
C16_GateUnderOtherId ==
  \E s \in 1..Len(socks) : \E i \in 1..Len(socks[s].applied) :
    LET r == CHOOSE x \in RoomIndex(socks[s].room) : TRUE
        op == order[r][socks[s].applied[i]].op
        mine == Range(circuit[socks[s].owner].gates)
    IN  /\ op.type = "gate_add"
        /\ \A g \in mine : g.id # op.gate.id
        /\ \E g \in mine : g.id[1] = socks[s].owner /\ g.type = op.gate.type
                           /\ g.qubit = op.gate.qubit /\ g.step = op.gate.step

\* C17: every document operation a client has sent, handed to handleMessage
\* as it was sent (same kind tag, same payload), makes a circuitStore call.
C17_VerbatimRecognised ==
  \A r \in 1..Len(order) : \A i \in 1..Len(order[r]) :
    order[r][i].op.type \in DocKinds => docCall(order[r][i].op).fn # "none"

\* A sent document operation whose kind tag no case of handleMessage matches:
\* delivered as sent it would change no replica.
C17_SentKindUnhandled ==
  \E r \in 1..Len(order) : \E i \in 1..Len(order[r]) : \E c \in Clients :
    /\ order[r][i].op.type \in DocKinds
    /\ docCall(order[r][i].op).fn = "none"
    /\ applyCall(circuit[c], docCall(order[r][i].op), <<c, nextId[c]>>) = circuit[c]

\* C18: in every replica no two gates occupy the same (qubit, step) cell.
C18_OneGatePerCell ==
  \A c \in Clients : \A i, j \in 1..Len(circuit[c].gates) :
    (i # j) => <<circuit[c].gates[i].qubit, circuit[c].gates[i].step>>
                 # <<circuit[c].gates[j].qubit, circuit[c].gates[j].step>>

\* A replica holds two gates at one cell, the second put there by a remote
\* gate_add on top of the gate the client had placed itself.
C18_RemoteAddOnOccupiedCell ==
  \E c \in Clients : \E i, j \in 1..Len(circuit[c].gates) :
    /\ i < j
    /\ circuit[c].gates[i].qubit = circuit[c].gates[j].qubit
    /\ circuit[c].gates[i].step = circuit[c].gates[j].step
    /\ \E s \in 1..Len(socks) : socks[s].owner = c /\ socks[s].applied # <<>>
         /\ LET r == CHOOSE x \in RoomIndex(socks[s].room) : TRUE
                op == order[r][socks[s].applied[Len(socks[s].applied)]].op
            IN  op.type = "gate_add" /\ op.gate.qubit = circuit[c].gates[j].qubit
                /\ op.gate.step = circuit[c].gates[j].step
                /\ op.gate.type = circuit[c].gates[j].type

\* The message the room relays for entry e of its order, as it would reach
\* the entry's own author.
EchoOf(e) ==
  [e.op EXCEPT !.type = RelayKind(e.op.type)] @@ [user_id |-> e.author, seq |-> e.seq]

\* The latest operation of its room's order that the participant of socket s
\* authored, as a one-element sequence (empty: none).
LastAuthored(s) ==
  LET r == CHOOSE x \in RoomIndex(socks[s].room) : TRUE
      own == SelectSeq(order[r], LAMBDA e : e.author = socks[s].user)
  IN  IF own = <<>> THEN <<>> ELSE <<own[Len(own)]>>

\* C19: an operation delivered back to its own author is discarded: handling
\* the echo of the operation a connected client authored last leaves the
\* client's replica as it is.
C19_SelfEchoDiscarded ==
  \A s \in 1..Len(socks) :
    (socks[s].st = "open" /\ socket[socks[s].owner] = s /\ LastAuthored(s) # <<>>) =>
      LET c == socks[s].owner
      IN  applyCall(circuit[c], docCall(EchoOf(LastAuthored(s)[1])), <<c, nextId[c]>>) = circuit[c]

\* A connected client has sent a gate_add and still holds that gate; the echo
\* would add the gate a second time.
C19_EchoWouldDuplicate ==
  \E s \in 1..Len(socks) :
    /\ socks[s].st = "open" /\ socket[socks[s].owner] = s /\ LastAuthored(s) # <<>>
    /\ LastAuthored(s)[1].op.type = "gate_add"
    /\ LastAuthored(s)[1].op.gate \in Range(circuit[socks[s].owner].gates)
    /\ docCall(EchoOf(LastAuthored(s)[1])).fn = "addGate"

\* What of the collaboration state the surrounding UI can observe.
Observable(c) ==
  <<isConnected[c], roomId[c], userId[c], participants[c], chatMessages[c], socket[c], error[c]>>

\* C20: a send attempted while it cannot be delivered leaves the local change
\* in place and gives the UI a signal: something the UI observes changes.
C20_FailedSendSurfaced ==
  [][\A c \in Clients :
       (/\ lastEdit[c].kind # "none" /\ ~canSend(c)
        /\ lastEdit'[c].kind = "none" /\ unsent'[c] /\ roomId'[c] = roomId[c]) =>
         /\ circuit'[c] = circuit[c]
         /\ Observable(c)' # Observable(c)]_vars

\* A disconnected client whose edit stays applied has had the send of its
\* operation dropped, and the panel shows no error.
C20_DroppedSilently ==
  \E c \in Clients :
    /\ unsent[c] /\ lastEdit[c].kind = "none" /\ ~isConnected[c] /\ roomId[c] # NULL
    /\ error[c] = NULL /\ circuit[c] # PersistedCircuit /\ circuit[c] # createEmptyCircuit

\* The qubits a gate touches: its target and the control qubits it has.
QubitsOf(g) ==
  {g.qubit} \cup (IF "controlQubit" \in DOMAIN g THEN {g.controlQubit} ELSE {})
            \cup (IF "controlQubit2" \in DOMAIN g THEN {g.controlQubit2} ELSE {})

\* The replica of c after the step is the replica before it resized to m
\* qubits: the count is m, no gate touches a qubit >= m, and the gates that
\* touched only qubits below m are all there, unchanged and in their order.
ResizedTo(c, m) ==
  /\ circuit'[c].numQubits = m
  /\ \A g \in Range(circuit'[c].gates) : \A q \in QubitsOf(g) : q < m
  /\ circuit'[c].gates = SelectSeq(circuit[c].gates, LAMBDA g : \A q \in QubitsOf(g) : q < m)

\* The step applies qubit_count_change(n) to the replica of c: the message
\* is handled on an open socket of c, or c presses a qubit button.
AppliesCount(c, n) ==
  \/ \E s \in 1..Len(socks) : socks[s].owner = c /\ onmessage(s, QubitCountChanged(n))
  \/ \E d \in {-1, 1} : circuit[c].numQubits + d = n /\ qubitButton(c, d)

AppliedCounts == QubitCounts \cup ((DefaultNumQubits - MaxQubitDrop)..DefaultNumQubits)

\* C21 (as the code has it): applying qubit_count_change(n), remotely or
\* locally, resizes the replica to n brought into 1..16 and drops exactly
\* the gates out of that range: no gate is left with a target or control
\* qubit at or above the new count, every gate whose qubits are all below
\* it is retained unchanged.
C21_ResizeDropsOutOfRange ==
  [][\A c \in Clients, n \in AppliedCounts :
       AppliesCount(c, n)
         => ResizedTo(c, IF n < MinNumQubits THEN MinNumQubits
                         ELSE IF n > MaxNumQubits THEN MaxNumQubits ELSE n)]_vars

\* C21 as stated: the replica is resized to n itself, whatever n is.
C21_ResizedToAnyCount ==
  [][\A c \in Clients, n \in AppliedCounts : AppliesCount(c, n) => ResizedTo(c, n)]_vars

\* A count of 2 has been applied to a replica of 4 qubits: the gates touching
\* qubit 3 are gone, the H gate on qubit 0 is retained.
C21_ControlledGateDropped ==
  /\ circuit[1].numQubits = 2
  /\ circuit[1].gates = <<GateH>>
  /\ left.msgs = ReplicaMessages - 1
  /\ left.edits = ReplicaEdits

\* The step applies gate_move(id, q, st) to the replica of c: the message is
\* handled on an open socket of c, or c's store moves the gate itself.
AppliesMove(c, id, q, st) ==
  \/ \E s \in 1..Len(socks) : socks[s].owner = c /\ onmessage(s, GateMoved(id, q, st))
  \/ moveGate(c, id, q, st)

\* C22: applying gate_move(id, qubit, step) relocates only the gate with
\* that id to the new cell; its other fields, all other gates (and their
\* order), the qubit count and the name stay as they are; when no gate has
\* that id the gate list is unchanged, and the handler takes the message all
\* the same.
C22_MoveRelocatesOnlyThatGate ==
  [][/\ \A c \in Clients, id \in MoveIds \cup {GateTOFFOLI.id, GateX.id},
          q \in MoveQubits, st \in Steps :
          AppliesMove(c, id, q, st) =>
            /\ circuit'[c].numQubits = circuit[c].numQubits
            /\ circuit'[c].name = circuit[c].name
            /\ Len(circuit'[c].gates) = Len(circuit[c].gates)
            /\ \A i \in 1..Len(circuit[c].gates) :
                 circuit'[c].gates[i] =
                   IF circuit[c].gates[i].id = id
                   THEN [circuit[c].gates[i] EXCEPT !.qubit = q, !.step = st]
                   ELSE circuit[c].gates[i]
            /\ (\A g \in Range(circuit[c].gates) : g.id # id)
                 => circuit'[c].gates = circuit[c].gates
     /\ \A s \in 1..Len(socks) :
          (socks[s].st = "open" /\ left.msgs > 0)
            => ENABLED onmessage(s, GateMoved(AbsentGateId, 0, 0))]_vars

\* A gate_moved for the CNOT gate has been handled by a replica holding X, H
\* and CNOT: the CNOT is on qubit 2 with its control qubit as before, X and H
\* are where they were.
C22_OneGateMoved ==
  /\ circuit[1].gates = <<GateX, GateH, [GateCNOT EXCEPT !.qubit = 2, !.step = 0]>>
  /\ left.msgs = ReplicaMessages - 1
  /\ left.edits = ReplicaEdits

\* The step applies circuit_update(doc) to the replica of c.
AppliesUpdate(c, doc) ==
  \E s \in 1..Len(socks) : socks[s].owner = c /\ onmessage(s, CircuitUpdated(doc))

\* C23 (as the code has it): applying circuit_update replaces the document
\* wholesale: afterwards the replica's qubit count and gate list are the
\* payload's, and its name is the payload's name, or 'Shared Circuit' when
\* the payload's name is empty, whatever the replica held before; so two
\* replicas that apply the same circuit_update hold the same qubit count,
\* gate list and name.
C23_UpdateReplacesDocument ==
  [][\A c \in Clients, doc \in Payloads :
       AppliesUpdate(c, doc) =>
         circuit'[c] = [numQubits |-> doc.numQubits, gates |-> doc.gates,
                        name |-> IF doc.name = "" THEN SharedName ELSE doc.name]]_vars

\* C23 as stated: the name too is the payload's, whatever the payload holds.
C23_NameIsThePayloads ==
  [][\A c \in Clients, doc \in Payloads :
       AppliesUpdate(c, doc) =>
         /\ circuit'[c].numQubits = doc.numQubits
         /\ circuit'[c].gates = doc.gates
         /\ circuit'[c].name = doc.name]_vars

\* A replica has applied the circuit_update whose payload holds the CNOT gate
\* alone and an empty name.
C23_ReplacedByPayload ==
  /\ circuit[1].gates = <<GateCNOT>>
  /\ circuit[1].name = SharedName
  /\ left.msgs < ReplicaMessages

\* C24: in every reachable state of the collaboration store, isConnected
\* implies that socket, roomId and userId are all non-null: a client is never
\* marked connected after it has left the room.
C24_ConnectedHasSession ==
  \A c \in Clients :
    isConnected[c] => (socket[c] # 0 /\ roomId[c] # NULL /\ userId[c] # 0)

\* The half of C24 the code keeps: a store marked connected holds a socket.
C24_ConnectedHoldsSocket ==
  \A c \in Clients : isConnected[c] => socket[c] # 0

\* A client that left while its socket was connecting is marked connected by
\* that socket's open event, with no room and no participant id.
C24_ConnectedAfterLeave ==
  \E c \in Clients :
    /\ isConnected[c] /\ socket[c] # 0
    /\ roomId[c] = NULL /\ userId[c] = 0
    /\ socks[socket[c]].st = "open"

\* Socket s is not the socket of its owner's current session: the store has
\* left the session s was constructed for, or holds a later one.
Stale(s) == s \notin SessionSocket(socks[s].owner)

\* C25: events from a socket that is no longer the current session's socket
\* have no effect: a message or close event of such a socket leaves the
\* owner's circuit, roster and chat log as they are and does not change
\* isConnected or socket.
C25_StaleEventsIgnored ==
  [][\A s \in 1..Len(socks) :
       (Stale(s) /\ (SocketMessage(s) \/ SocketClosed(s) \/ SocketLost(s))) =>
         LET c == socks[s].owner
         IN  /\ circuit'[c] = circuit[c]
             /\ participants'[c] = participants[c]
             /\ chatMessages'[c] = chatMessages[c]
             /\ isConnected'[c] = isConnected[c]
             /\ socket'[c] = socket[c]]_vars

\* The close event of an earlier socket has marked a client disconnected
\* while the socket of its current session is open.
C25_NewSessionClobbered ==
  \E c \in Clients :
    /\ ~isConnected[c] /\ socket[c] = 0
    /\ \E s \in SessionSocket(c) : socks[s].st = "open"
    /\ \E t \in 1..Len(socks) : socks[t].owner = c /\ Stale(t) /\ socks[t].st = "closed"

\* The sockets of client c that are connecting or open.
LiveSockets(c) ==
  {s \in 1..Len(socks) : socks[s].owner = c /\ socks[s].st \in {"connecting", "open"}}

\* C26: a client has at most one socket that is connecting or open at any
\* time, so no two sockets deliver messages to the same message handler.
C26_AtMostOneLiveSocket ==
  \A c \in Clients : Cardinality(LiveSockets(c)) <= 1

\* Two sockets of one client are open at once and the later one holds a
\* message for the client's handler, which the earlier one has already fed.
C26_TwoSocketsDeliver ==
  \E c \in Clients : \E s, t \in LiveSockets(c) :
    /\ s < t
    /\ socks[s].st = "open" /\ socks[t].st = "open"
    /\ socks[s].inbox = <<>> /\ socks[t].inbox # <<>>
    /\ participants[c] # <<>>

\* The positions of its room's order that session socket s never saw: the
\* operations ordered after the session's snapshot was taken and before the
\* socket opened, which no message of the socket has made the handler apply.
MissedBy(s) ==
  {p \in (socks[s].snap + 1)..socks[s].from : p \notin Range(socks[s].applied)}

\* C27: no operation is lost across the join handshake.  Once nothing is in
\* flight, every operation the room ordered between a session's snapshot and
\* the opening of its socket has been applied to the joiner's replica; and a
\* local edit made after createRoom/joinRoom resolved and before the socket's
\* open event is not dropped by the send that follows it.
C27_NoOperationLost ==
  [][/\ Quiescent' =>
          \A s \in 1..Len(socks') :
            (socks'[s].st = "open" /\ socks'[s].user = userId'[socks'[s].owner])
              => \A p \in (socks'[s].snap + 1)..socks'[s].from : p \in Range(socks'[s].applied)
     /\ \A c \in Clients :
          (lastEdit[c].kind # "none" /\ lastEdit[c].conn = "connecting") => ~sendDropped(c)]_vars

\* Nothing is in flight, and the replica of a connected joiner lacks an
\* operation its room ordered during the handshake.
C27_OperationMissed ==
  /\ Quiescent
  /\ \E s \in 1..Len(socks) :
       /\ socks[s].st = "open" /\ ~Stale(s) /\ isConnected[socks[s].owner]
       /\ MissedBy(s) # {}

\* C28: in every reachable replica state every gate lies inside the circuit:
\* its target qubit and its control qubits are in 0..numQubits-1.
C28_GatesInsideCircuit ==
  \A c \in Clients : \A g \in Range(circuit[c].gates) :
    \A q \in QubitsOf(g) : q \in 0..(circuit[c].numQubits - 1)

\* A replica its user shrank to 3 qubits has since handled a gate_added for
\* qubit 3 and holds that gate.
C28_GateBeyondLastQubit ==
  /\ circuit[1].numQubits = DefaultNumQubits - 1
  /\ left.edits = ReplicaEdits - 1
  /\ left.msgs = ReplicaMessages - 1
  /\ \E g \in Range(circuit[1].gates) : g.qubit = DefaultNumQubits - 1 /\ g.id[1] = 1

\* C29: whenever simulationResult is not null it was computed from the
\* circuit's current gate list and qubit count: a response that arrives
\* after the circuit was changed during the request is not stored as the
\* current result.  (The mock result stored after a rejected call is held to
\* its qubit count only.)
C29_ResultIsOfCurrentCircuit ==
  \A c \in Clients :
    simulationResult[c].kind # "null" =>
      /\ simulationResult[c].numQubits = circuit[c].numQubits
      /\ simulationResult[c].kind = "result" => simulationResult[c].gates = circuit[c].gates

\* The half of C29 the code keeps: every step that changes the gate list or
\* the qubit count of a replica, local or remote, leaves its simulationResult
\* null.
C29_MutationClearsResult ==
  [][\A c \in Clients :
       (circuit'[c].gates # circuit[c].gates \/ circuit'[c].numQubits # circuit[c].numQubits)
         => simulationResult'[c].kind = "null"]_vars

\* A result computed by the server is stored, no call is awaited, and the
\* gates it was computed from are not the circuit's gates.
C29_StaleResultStored ==
  \E c \in Clients :
    /\ simulationResult[c].kind = "result"
    /\ ~isSimulating[c]
    /\ simulationResult[c].gates # circuit[c].gates

\* C30: token refresh on 401 is bounded: for an API request that receives a
\* 401 the response interceptor issues at most one token-refresh request,
\* and when the refresh request itself is answered with 401 the call ends
\* there, rejected, with the stored tokens cleared.
C30_RefreshBounded ==
  [][/\ refreshes' <= 1
     /\ (/\ calls # <<>>
         /\ calls[Len(calls)].url = RefreshUrl
         /\ responseRejected(401))
          => (settled' = "rejected" /\ REFRESH_TOKEN' = NULL /\ ACCESS_TOKEN' = NULL)]_vars

\* One API request has made the interceptor post two refresh requests: the
\* first was answered with 401, the second is with the server, and the
\* tokens are still stored.
C30_SecondRefreshPosted ==
  /\ refreshes = 2
  /\ Len(calls) = 3
  /\ calls[1].url \in ApiUrls /\ calls[1].pc = "refreshing"
  /\ calls[2].url = RefreshUrl /\ calls[2].pc = "refreshing" /\ calls[2].retry
  /\ calls[3].url = RefreshUrl /\ calls[3].pc = "sent"
  /\ REFRESH_TOKEN # NULL

====
